---- MODULE Spec2Model ----
(***************************************************************************)
(* Model of solr_mcp.solr.client.SolrClient.execute_vector_select_query    *)
(* (the vector-filtered SQL composer) and of the collaborators it calls.   *)
(* Statements are sequences of one-character strings, so that upper(),     *)
(* find(), slicing, strip() and join() are computed as Python computes     *)
(* them.                                                                   *)
(***************************************************************************)
EXTENDS Integers, Sequences, FiniteSets, TLC

(* ------------------------------ bounds -------------------------------- *)
MaxLimit == 2      \* LIMIT values of the base statement are 1..MaxLimit
MaxOffset == 1     \* OFFSET values of the base statement are 0..MaxOffset
MaxDocs == 2       \* the KNN index ranks at most MaxDocs matching documents

(* --------------------------- program constants ------------------------ *)
DefaultLimit == 10
KeywordLen == 5

(* ------------------------------ text ----------------------------------- *)
LowerChars == <<"a","b","c","d","e","f","g","h","i","j","k","l","m",
                "n","o","p","q","r","s","t","u","v","w","x","y","z">>
UpperChars == <<"A","B","C","D","E","F","G","H","I","J","K","L","M",
                "N","O","P","Q","R","S","T","U","V","W","X","Y","Z">>
DigitChars == <<"0","1","2","3","4","5","6","7","8","9">>

Range(s) == { s[i] : i \in 1..Len(s) }

UpperMap == [ c \in Range(LowerChars) |->
                UpperChars[CHOOSE i \in 1..26 : LowerChars[i] = c] ]

\* str.upper() on the ASCII alphabet of the model
upper(s) == [ i \in 1..Len(s) |->
                IF s[i] \in DOMAIN UpperMap THEN UpperMap[s[i]] ELSE s[i] ]

LowerMap == [ c \in Range(UpperChars) |->
                LowerChars[CHOOSE i \in 1..26 : UpperChars[i] = c] ]

\* str.lower() on the ASCII alphabet of the model
lower(s) == [ i \in 1..Len(s) |->
                IF s[i] \in DOMAIN LowerMap THEN LowerMap[s[i]] ELSE s[i] ]

\* str.find(sub): 0-based index of the first occurrence, -1 when absent
find(s, sub) ==
    LET hits == { i \in 1..(Len(s) - Len(sub) + 1) :
                    SubSeq(s, i, i + Len(sub) - 1) = sub }
    IN  IF hits = {} THEN -1
        ELSE (CHOOSE i \in hits : \A j \in hits : i <= j) - 1

\* the `sub in s` operator
contains(s, sub) == find(s, sub) # -1

\* str.strip() for the only whitespace of the alphabet, the space
strip(s) ==
    LET keep == { i \in 1..Len(s) : s[i] # " " }
    IN  IF keep = {} THEN <<>>
        ELSE LET lo == CHOOSE i \in keep : \A j \in keep : i <= j
                 hi == CHOOSE i \in keep : \A j \in keep : j <= i
             IN  SubSeq(s, lo, hi)

\* sep.join(parts)
RECURSIVE join(_, _)
join(parts, sep) ==
    IF Len(parts) = 0 THEN <<>>
    ELSE IF Len(parts) = 1 THEN parts[1]
    ELSE parts[1] \o sep \o join(Tail(parts), sep)

\* str(n) for a natural number
RECURSIVE str(_)
str(n) == IF n < 10 THEN <<DigitChars[n + 1]>>
          ELSE str(n \div 10) \o <<DigitChars[(n % 10) + 1]>>

IsDigits(s) == Len(s) > 0 /\ \A i \in 1..Len(s) : s[i] \in Range(DigitChars)

DigitVal(c) == (CHOOSE i \in 1..10 : DigitChars[i] = c) - 1

\* int(s) for a string of decimal digits
RECURSIVE int(_)
int(s) == IF Len(s) = 0 THEN 0
          ELSE 10 * int(SubSeq(s, 1, Len(s) - 1)) + DigitVal(s[Len(s)])

(* --------------------------- SQL vocabulary ---------------------------- *)
kwSELECT == <<"S","E","L","E","C","T">>
kwFROM == <<"F","R","O","M">>
kwWHERE == <<"W","H","E","R","E">>
kwAND == <<"A","N","D">>
kwOR == <<"O","R">>
kwIN == <<"I","N">>
kwORDER == <<"O","R","D","E","R">>
kwBY == <<"B","Y">>
kwLIMIT == <<"L","I","M","I","T">>
kwOFFSET == <<"O","F","F","S","E","T">>
Keywords == {kwSELECT, kwFROM, kwWHERE, kwAND, kwOR, kwIN, kwORDER, kwBY,
             kwLIMIT, kwOFFSET}

colId == <<"i","d">>
colStatus == <<"s","t","a","t","u","s">>
valActive == <<"'","a","c","t","i","v","e","'">>
valNew == <<"'","n","e","w","'">>
valOld == <<"'","o","l","d","'">>

\* collections of the server; two of them have names that contain a keyword
tblDocs == <<"d","o","c","s">>
tblLimits == <<"l","i","m","i","t","s">>
tblElsewhere == <<"e","l","s","e","w","h","e","r","e">>
Collections == {tblDocs, tblLimits, tblElsewhere}

\* WHERE predicates of the base statements
condSimple == colStatus \o <<"=">> \o valActive
condOr == colStatus \o <<"=">> \o valActive \o <<" ">> \o kwOR \o <<" ">>
          \o colStatus \o <<"=">> \o valNew
Conds == {condSimple, condOr}

Casings == {"upper", "lower", "capital"}

\* a keyword as the caller typed it
cased(kw, casing) ==
    IF casing = "upper" THEN kw
    ELSE [ i \in 1..Len(kw) |->
             IF casing = "capital" /\ i = 1 THEN kw[i]
             ELSE LowerChars[CHOOSE j \in 1..26 : UpperChars[j] = kw[i]] ]

(* --------------------------- base statements --------------------------- *)
\* The callers' SELECT statements:
\*   SELECT * FROM <table> [WHERE <cond>] [ORDER BY id] [LIMIT n [OFFSET m]]
\* where = <<>>: no WHERE clause; n = 0: no LIMIT clause; m = 0: no OFFSET.
Bases ==
    { b \in [ table : Collections, where : Conds \cup {<<>>}, order : BOOLEAN,
              n : 0..MaxLimit, m : 0..MaxOffset, casing : Casings ] :
        /\ (b.n = 0 => b.m = 0)
        /\ (b.where = <<>> /\ b.n = 0 => b.casing = "upper") }

\* the text of a base statement
Render(b) ==
    kwSELECT \o <<" ","*"," ">> \o kwFROM \o <<" ">> \o b.table
    \o (IF b.where = <<>> THEN <<>>
        ELSE <<" ">> \o cased(kwWHERE, b.casing) \o <<" ">> \o b.where)
    \o (IF b.order THEN <<" ">> \o kwORDER \o <<" ">> \o kwBY \o <<" ">> \o colId
        ELSE <<>>)
    \o (IF b.n = 0 THEN <<>>
        ELSE <<" ">> \o cased(kwLIMIT, b.casing) \o <<" ">> \o str(b.n))
    \o (IF b.m = 0 THEN <<>>
        ELSE <<" ">> \o kwOFFSET \o <<" ">> \o str(b.m))

\* QueryBuilder.parse_and_validate_select: the syntax tree of the statement
\* and its collection.  ast.args holds only the clauses that are present:
\* args["limit"] is a Limit node whose expression is the literal text of n,
\* args["offset"] the integer m.
parse_and_validate_select(b) ==
    [ k \in {"from"} \cup (IF b.where = <<>> THEN {} ELSE {"where"})
            \cup (IF b.order THEN {"order"} ELSE {})
            \cup (IF b.n = 0 THEN {} ELSE {"limit"})
            \cup (IF b.m = 0 THEN {} ELSE {"offset"}) |->
        CASE k = "from" -> b.table
          [] k = "where" -> b.where
          [] k = "order" -> colId
          [] k = "limit" -> str(b.n)
          [] k = "offset" -> b.m ]

(* -------------------- execute_vector_select_query ---------------------- *)
\* limit taken from the syntax tree (client.py 197-210)
limit_of(ast) ==
    IF "limit" \in DOMAIN ast
    THEN IF IsDigits(ast["limit"]) THEN int(ast["limit"]) ELSE DefaultLimit
    ELSE DefaultLimit

\* ast.args.get("offset", 0)
offset_of(ast) == IF "offset" \in DOMAIN ast THEN ast["offset"] ELSE 0

\* faulty variant: the offset is forgotten
top_k_without_offset(ast) == limit_of(ast)

\* number of candidates requested from the similarity search
top_k_of(ast) == limit_of(ast) + offset_of(ast)

\* faulty variant: the keyword is searched in the statement as typed
has_where_case_sensitive(stmt) == contains(stmt, kwWHERE)

has_where(stmt) == contains(upper(stmt), kwWHERE)

has_limit(stmt) == contains(upper(stmt), kwLIMIT)

\* the statement before the first LIMIT, stripped
stmt_before_limit(stmt) ==
    IF has_limit(stmt) THEN strip(SubSeq(stmt, 1, find(upper(stmt), kwLIMIT)))
    ELSE stmt

\* what follows the first LIMIT, stripped
limit_part(stmt) ==
    IF has_limit(stmt)
    THEN strip(SubSeq(stmt, find(upper(stmt), kwLIMIT) + KeywordLen + 1, Len(stmt)))
    ELSE <<>>

\* the ID filter spliced after the statement (client.py 248-259)
add_filter(stmt, hasWhere, doc_ids) ==
    IF doc_ids # <<>>
    THEN IF hasWhere
         THEN stmt \o <<" ">> \o kwAND \o <<" ">> \o colId \o <<" ">> \o kwIN
              \o <<" ","(">> \o join(doc_ids, <<",">>) \o <<")">>
         ELSE stmt \o <<" ">> \o kwWHERE \o <<" ">> \o colId \o <<" ">> \o kwIN
              \o <<" ","(">> \o join(doc_ids, <<",">>) \o <<")">>
    ELSE IF hasWhere
         THEN stmt \o <<" ">> \o kwAND \o <<" ","1","=","0">>
         ELSE stmt \o <<" ">> \o kwWHERE \o <<" ","1","=","0">>

\* LIMIT reattached at the end (client.py 262-265)
add_limit(stmt, limitPart, hasLimit, limit) ==
    IF limitPart # <<>> THEN stmt \o <<" ">> \o kwLIMIT \o <<" ">> \o limitPart
    ELSE IF ~hasLimit THEN stmt \o <<" ">> \o kwLIMIT \o <<" ">> \o str(limit)
    ELSE stmt

\* the statement sent to the SQL endpoint (client.py 232-265)
rewrite(query, doc_ids, limit) ==
    add_limit(add_filter(stmt_before_limit(query), has_where(query), doc_ids),
              limit_part(query), has_limit(query), limit)

(* ------------------------ similarity search ---------------------------- *)
\* The documents of every collection, in the server's own order.
NumRows == MaxDocs + 1
Statuses == <<valActive, valNew, valOld>>
Rows == [ i \in 1..NumRows |->
            [ id |-> str(i), status |-> Statuses[((i - 1) % 3) + 1] ] ]
RowIds == { Rows[i].id : i \in 1..NumRows }

\* the rankings the KNN index can hold for a query vector: the matching
\* documents, most similar first, no document twice
Rankings ==
    UNION { { r \in [1..k -> RowIds] : \A i, j \in 1..k : r[i] = r[j] => i = j } :
            k \in 0..MaxDocs }

\* the key under which the server reports a document's ID
DocIdKeys == {"_docid_", "[docid]", "docid"}
Shapes == DocIdKeys \cup {"none"}

\* one document of the search response
doc_of(id, shape) == [ k \in DocIdKeys \cap {shape} |-> id ]

\* VectorManager.execute_vector_search: the first top_k documents of the
\* ranking, as the response's docs
execute_vector_search(ranking, shape, top_k) ==
    [ i \in 1..(IF Len(ranking) < top_k THEN Len(ranking) ELSE top_k) |->
        doc_of(ranking[i], shape) ]

\* the docid that from_solr_response gives a document (results.py 73-77)
docid_of(doc) ==
    IF "_docid_" \in DOMAIN doc THEN doc["_docid_"]
    ELSE IF "[docid]" \in DOMAIN doc /\ doc["[docid]"] # <<>> THEN doc["[docid]"]
    ELSE IF "docid" \in DOMAIN doc /\ doc["docid"] # <<>> THEN doc["docid"]
    ELSE <<"0">>

\* faulty variant: every document is appended twice
from_solr_response_twice(docs, top_k) ==
    [ results |-> [ i \in 1..(2 * Len(docs)) |->
                      [ docid |-> docid_of(docs[(i + 1) \div 2]) ] ],
      top_k |-> top_k ]

\* VectorSearchResults.from_solr_response: one result per document, in order
from_solr_response(docs, top_k) ==
    [ results |-> [ i \in 1..Len(docs) |-> [ docid |-> docid_of(docs[i]) ] ],
      top_k |-> top_k ]

\* faulty variant: the IDs come out last first
get_doc_ids_reversed(vector_results) ==
    [ i \in 1..Len(vector_results.results) |->
        vector_results.results[Len(vector_results.results) + 1 - i].docid ]

\* VectorSearchResults.get_doc_ids
get_doc_ids(vector_results) ==
    [ i \in 1..Len(vector_results.results) |-> vector_results.results[i].docid ]

(* ----------------------------- SQL endpoint ---------------------------- *)
\* s.split(sep) for a set of separators
RECURSIVE split(_, _)
split(s, seps) ==
    LET idx == { i \in 1..Len(s) : s[i] \in seps }
    IN  IF idx = {} THEN <<s>>
        ELSE LET i == CHOOSE i \in idx : \A j \in idx : i <= j
             IN  <<SubSeq(s, 1, i - 1)>> \o split(SubSeq(s, i + 1, Len(s)), seps)

NonEmpty(t) == t # <<>>

\* the words of a statement
Tokens(stmt) == SelectSeq(split(stmt, {" "}), NonEmpty)

IsKw(t, kw) == upper(t) = kw

IsIdent(t) ==
    /\ t # <<>>
    /\ \A i \in 1..Len(t) : t[i] \in Range(LowerChars) \cup Range(UpperChars)
    /\ upper(t) \notin Keywords

\* the tokens of s that are the keyword kw, in any casing
KwTokens(s, kw) == { t \in Range(s) : IsKw(t, kw) }

\* the first position at or after `from` that holds one of the keywords, or
\* Len(toks) + 1
FirstKw(toks, from, kws) ==
    LET hits == { i \in from..Len(toks) : upper(toks[i]) \in kws }
    IN  IF hits = {} THEN Len(toks) + 1
        ELSE CHOOSE i \in hits : \A j \in hits : i <= j

\* (v1,v2,...): the values, or <<>> when the token is no such list
InList(t) ==
    IF Len(t) >= 3 /\ t[1] = "(" /\ t[Len(t)] = ")"
    THEN LET vals == split(SubSeq(t, 2, Len(t) - 1), {","})
         IN  IF \A i \in 1..Len(vals) : IsDigits(vals[i]) THEN vals ELSE <<>>
    ELSE <<>>

\* a comparison  <column or literal>=<literal>  or a membership  id IN (...)
IsAtom(a) ==
    \/ /\ Len(a) = 1
       /\ LET sides == split(a[1], {"="})
          IN  Len(sides) = 2 /\ sides[1] # <<>> /\ sides[2] # <<>>
    \/ /\ Len(a) = 3
       /\ IsIdent(a[1]) /\ IsKw(a[2], kwIN) /\ InList(a[3]) # <<>>

ColumnOf(row, name) ==
    IF name = colId THEN row.id
    ELSE IF name = colStatus THEN row.status
    ELSE name

AtomHolds(a, row) ==
    IF Len(a) = 1
    THEN LET sides == split(a[1], {"="})
         IN  ColumnOf(row, sides[1]) = sides[2]
    ELSE ColumnOf(row, a[1]) \in Range(InList(a[3]))

\* the predicate as a disjunction of conjunctions of atoms: AND binds
\* tighter than OR
Disjuncts(cond) ==
    LET ds == split(cond, KwTokens(cond, kwOR))
    IN  [ i \in 1..Len(ds) |-> split(ds[i], KwTokens(ds[i], kwAND)) ]

IsCond(cond) ==
    LET ds == Disjuncts(cond)
    IN  \A i \in 1..Len(ds) : \A j \in 1..Len(ds[i]) : IsAtom(ds[i][j])

CondHolds(cond, row) ==
    LET ds == Disjuncts(cond)
    IN  \E i \in 1..Len(ds) : \A j \in 1..Len(ds[i]) : AtomHolds(ds[i][j], row)

\* The SQL grammar of the endpoint:
\*   SELECT * FROM ident [WHERE cond] [ORDER BY ident] [LIMIT n] [OFFSET m]
\* The clause readers take the position of the next unread token and give the
\* position after the clause; 0 stands for a syntax error.
HeadOk(toks) ==
    /\ Len(toks) >= 4
    /\ IsKw(toks[1], kwSELECT) /\ toks[2] = <<"*">>
    /\ IsKw(toks[3], kwFROM) /\ IsIdent(toks[4])

HasClause(toks, p, kw) == p > 0 /\ p <= Len(toks) /\ IsKw(toks[p], kw)

\* the tokens of the WHERE predicate
WhereCond(toks) ==
    IF HasClause(toks, 5, kwWHERE)
    THEN SubSeq(toks, 6, FirstKw(toks, 6, {kwORDER, kwLIMIT, kwOFFSET}) - 1)
    ELSE <<>>

AfterWhere(toks) ==
    IF HasClause(toks, 5, kwWHERE)
    THEN IF WhereCond(toks) # <<>> /\ IsCond(WhereCond(toks))
         THEN FirstKw(toks, 6, {kwORDER, kwLIMIT, kwOFFSET})
         ELSE 0
    ELSE 5

AfterOrder(toks, p) ==
    IF HasClause(toks, p, kwORDER)
    THEN IF p + 2 <= Len(toks) /\ IsKw(toks[p + 1], kwBY) /\ IsIdent(toks[p + 2])
         THEN p + 3
         ELSE 0
    ELSE p

\* LIMIT n and OFFSET m: a keyword and a number
AfterNumberClause(toks, p, kw) ==
    IF HasClause(toks, p, kw)
    THEN IF p + 1 <= Len(toks) /\ IsDigits(toks[p + 1]) THEN p + 2 ELSE 0
    ELSE p

LimitPos(toks) == AfterOrder(toks, AfterWhere(toks))
OffsetPos(toks) == AfterNumberClause(toks, LimitPos(toks), kwLIMIT)
EndPos(toks) == AfterNumberClause(toks, OffsetPos(toks), kwOFFSET)

\* the number of the clause at p, or the default when the clause is absent
NumberAt(toks, p, kw, default) ==
    IF HasClause(toks, p, kw) THEN int(toks[p + 1]) ELSE default

\* ok is FALSE when the statement is not a sentence of the grammar
ParseToks(toks) ==
    IF HeadOk(toks) /\ EndPos(toks) = Len(toks) + 1
    THEN [ ok |-> TRUE, table |-> toks[4], cond |-> WhereCond(toks),
           filtered |-> HasClause(toks, 5, kwWHERE),
           limit |-> NumberAt(toks, LimitPos(toks), kwLIMIT, NumRows),
           offset |-> NumberAt(toks, OffsetPos(toks), kwOFFSET, 0) ]
    ELSE [ ok |-> FALSE ]

ParseSql(stmt) == ParseToks(Tokens(stmt))

IsValidSql(stmt) == ParseSql(stmt).ok

\* the IDs of the rows a valid statement returns
SqlRows(stmt) ==
    LET q == ParseSql(stmt)
        Matches(row) == ~q.filtered \/ CondHolds(q.cond, row)
        all == SelectSeq(Rows, Matches)
        last == IF q.offset + q.limit < Len(all) THEN q.offset + q.limit
                ELSE Len(all)
    IN  [ i \in 1..(IF last > q.offset THEN last - q.offset ELSE 0) |->
            all[q.offset + i].id ]

(* ------------------------------ errors --------------------------------- *)
\* the typed errors of solr_mcp.solr.exceptions, all of them SolrError
TypedErrors == {"SolrError", "QueryError", "SQLParseError", "SQLExecutionError",
                "DocValuesError", "SchemaError", "ConnectionError",
                "IndexingError"}

NoError == [ type |-> "None", msg |-> "", wrapped |-> FALSE ]

raised_by(type) == [ type |-> type, msg |-> type, wrapped |-> FALSE ]

\* the errors each step of the query can end with: one of the taxonomy and
\* one outside it
StepErrors(step) ==
    CASE step = "parse" -> {"SQLParseError", "Exception"}
      [] step = "validate" -> {"SolrError", "KeyError"}
      [] step = "search" -> {"SolrError", "ValidationError"}
      [] step = "sql" -> {"SQLExecutionError", "DocValuesError", "ClientError"}

\* faulty variant: every exception is re-raised as it is
on_exception_reraise(e) == e

\* the except clause of execute_vector_select_query (client.py 272-275)
on_exception(e) ==
    IF e.type \in TypedErrors THEN e
    ELSE [ type |-> "QueryError", msg |-> e.msg, wrapped |-> TRUE ]

\* SolrClient._get_or_create_client: the collection the pysolr client is
\* bound to after the call (client.py 117-122)
get_or_create_client(current, collection) ==
    IF current = <<>> THEN collection ELSE current

\* faulty variant: the statement is sent before the search
request_after_swapped(step) ==
    CASE step = "validate" -> "sql"
      [] step = "search" -> "knn"

\* the request the query sends when a step has completed (client.py 219, 268)
request_after(step) ==
    CASE step = "validate" -> "knn"
      [] step = "search" -> "sql"

(* ------------------- messages of the client operations ----------------- *)
\* the literal parts of the messages of client.py, character by character
msgNoCollection ==
    <<"N","o"," ","c","o","l","l","e","c","t","i","o","n"," ","s","p","e",
      "c","i","f","i","e","d">>
msgListCollections ==
    <<"F","a","i","l","e","d"," ","t","o"," ","l","i","s","t"," ","c","o",
      "l","l","e","c","t","i","o","n","s",":"," ">>
msgListFields ==
    <<"F","a","i","l","e","d"," ","t","o"," ","l","i","s","t"," ","f","i",
      "e","l","d","s"," ","f","o","r"," ","c","o","l","l","e","c","t","i",
      "o","n"," ","'">>
msgQuoteColon ==
    <<"'",":"," ">>
msgSqlFailed ==
    <<"S","Q","L"," ","q","u","e","r","y"," ","f","a","i","l","e","d",":",
      " ">>
msgVectorQuery ==
    <<"E","r","r","o","r"," ","e","x","e","c","u","t","i","n","g"," ","v",
      "e","c","t","o","r"," ","q","u","e","r","y",":"," ">>
msgSemantic ==
    <<"S","e","m","a","n","t","i","c"," ","s","e","a","r","c","h"," ","f",
      "a","i","l","e","d",":"," ">>
msgNoDocuments ==
    <<"N","o"," ","d","o","c","u","m","e","n","t","s"," ","p","r","o","v",
      "i","d","e","d">>
msgCollection ==
    <<"C","o","l","l","e","c","t","i","o","n"," ","'">>
msgDoesNotExist ==
    <<"'"," ","d","o","e","s"," ","n","o","t"," ","e","x","i","s","t">>
msgAddDocuments ==
    <<"F","a","i","l","e","d"," ","t","o"," ","a","d","d"," ","d","o","c",
      "u","m","e","n","t","s",":"," ">>
msgBothIdsAndQuery ==
    <<"C","a","n","n","o","t"," ","s","p","e","c","i","f","y"," ","b","o",
      "t","h"," ","'","i","d","s","'"," ","a","n","d"," ","'","q","u","e",
      "r","y","'">>
msgEitherIdsOrQuery ==
    <<"M","u","s","t"," ","s","p","e","c","i","f","y"," ","e","i","t","h",
      "e","r"," ","'","i","d","s","'"," ","o","r"," ","'","q","u","e","r",
      "y","'">>
msgDeleteDocuments ==
    <<"F","a","i","l","e","d"," ","t","o"," ","d","e","l","e","t","e"," ",
      "d","o","c","u","m","e","n","t","s",":"," ">>
msgCommitStatus ==
    <<"C","o","m","m","i","t"," ","f","a","i","l","e","d"," ","w","i","t",
      "h"," ","s","t","a","t","u","s"," ">>
msgColon ==
    <<":"," ">>
msgCommit ==
    <<"F","a","i","l","e","d"," ","t","o"," ","c","o","m","m","i","t",":",
      " ">>
msgQueryStatus ==
    <<"Q","u","e","r","y"," ","f","a","i","l","e","d"," ","w","i","t","h",
      " ","s","t","a","t","u","s"," ">>
msgQuery ==
    <<"Q","u","e","r","y"," ","e","x","e","c","u","t","i","o","n"," ","f",
      "a","i","l","e","d",":"," ">>
msgTermsStatus ==
    <<"T","e","r","m","s"," ","r","e","q","u","e","s","t"," ","f","a","i",
      "l","e","d"," ","w","i","t","h"," ","s","t","a","t","u","s"," ">>
msgTerms ==
    <<"F","a","i","l","e","d"," ","t","o"," ","g","e","t"," ","t","e","r",
      "m","s",":"," ">>
msgSchemaStatus ==
    <<"S","c","h","e","m","a"," ","m","o","d","i","f","i","c","a","t","i",
      "o","n"," ","f","a","i","l","e","d"," ","w","i","t","h"," ","s","t",
      "a","t","u","s"," ">>
msgAddField ==
    <<"F","a","i","l","e","d"," ","t","o"," ","a","d","d"," ","f","i","e",
      "l","d",":"," ">>
msgSchemaFieldsStatus ==
    <<"S","c","h","e","m","a"," ","r","e","t","r","i","e","v","a","l"," ",
      "f","a","i","l","e","d"," ","w","i","t","h"," ","s","t","a","t","u",
      "s"," ">>
msgSchemaFields ==
    <<"F","a","i","l","e","d"," ","t","o"," ","g","e","t"," ","s","c","h",
      "e","m","a"," ","f","i","e","l","d","s",":"," ">>
msgFieldStatus ==
    <<"F","i","e","l","d"," ","r","e","t","r","i","e","v","a","l"," ","f",
      "a","i","l","e","d"," ","w","i","t","h"," ","s","t","a","t","u","s",
      " ">>
msgField ==
    <<"F","a","i","l","e","d"," ","t","o"," ","g","e","t"," ","f","i","e",
      "l","d",":"," ">>
msgDeleteField ==
    <<"F","a","i","l","e","d"," ","t","o"," ","d","e","l","e","t","e"," ",
      "f","i","e","l","d",":"," ">>
msgVersionConflict ==
    <<"V","e","r","s","i","o","n"," ","c","o","n","f","l","i","c","t",":",
      " ","D","o","c","u","m","e","n","t"," ","h","a","s"," ","b","e","e",
      "n"," ","m","o","d","i","f","i","e","d","."," ","E","x","p","e","c",
      "t","e","d"," ","v","e","r","s","i","o","n"," ">>
msgDifferentVersion ==
    <<" ","b","u","t"," ","d","o","c","u","m","e","n","t"," ","h","a","s",
      " ","d","i","f","f","e","r","e","n","t"," ","v","e","r","s","i","o",
      "n",".">>
msgUpdateStatus ==
    <<"A","t","o","m","i","c"," ","u","p","d","a","t","e"," ","f","a","i",
      "l","e","d"," ","w","i","t","h"," ","s","t","a","t","u","s"," ">>
msgAtomicUpdate ==
    <<"F","a","i","l","e","d"," ","t","o"," ","p","e","r","f","o","r","m",
      " ","a","t","o","m","i","c"," ","u","p","d","a","t","e",":"," ">>
msgGetStatus ==
    <<"R","e","a","l","-","t","i","m","e"," ","g","e","t"," ","f","a","i",
      "l","e","d"," ","w","i","t","h"," ","s","t","a","t","u","s"," ">>
msgGet ==
    <<"F","a","i","l","e","d"," ","t","o"," ","g","e","t"," ","d","o","c",
      "u","m","e","n","t","s",":"," ">>
txtVersionConflictKey ==
    <<"v","e","r","s","i","o","n"," ","c","o","n","f","l","i","c","t">>

(* ------------------------------ exceptions ----------------------------- *)
\* the texts of the errors that the collaborators and the server report
txtNotConnected ==
    <<"N","o","t"," ","c","o","n","n","e","c","t","e","d"," ","t","o"," ",
      "Z","o","o","K","e","e","p","e","r">>
txtConnectionFailed ==
    <<"C","o","n","n","e","c","t","i","o","n"," ","f","a","i","l","e","d">>
txtConnectionRefused ==
    <<"C","o","n","n","e","c","t","i","o","n"," ","r","e","f","u","s","e",
      "d">>
txtBadRequest ==
    <<"B","a","d"," ","R","e","q","u","e","s","t">>
txtNotFound ==
    <<"N","o","t"," ","F","o","u","n","d">>
txtVersionConflictFor ==
    <<"v","e","r","s","i","o","n"," ","c","o","n","f","l","i","c","t"," ",
      "f","o","r"," ","1">>
txtMissingDocValues ==
    <<"m","u","s","t"," ","h","a","v","e"," ","D","o","c","V","a","l","u",
      "e","s"," ","t","o"," ","u","s","e"," ","t","h","i","s"," ","f","e",
      "a","t","u","r","e">>
txtUnexpected ==
    <<"U","n","e","x","p","e","c","t","e","d"," ","e","r","r","o","r">>

\* an exception: its class and str(e)
Exc(type, msg) == [ type |-> type, msg |-> msg ]
NoExc == Exc("None", <<>>)

\* the base class of each class of solr_mcp.solr.exceptions
BaseOf(type) ==
    CASE type \in {"DocValuesError", "SQLParseError", "SQLExecutionError"}
           -> "QueryError"
      [] type \in {"QueryError", "SchemaError", "ConnectionError",
                   "IndexingError"} -> "SolrError"
      [] OTHER -> "Exception"

\* isinstance(e, cls), which an `except cls` clause tests
isinstance(e, cls) ==
    cls \in {e.type, BaseOf(e.type), BaseOf(BaseOf(e.type)), "Exception"}

\* the public operations of SolrClient
PublicOperations ==
    {"list_collections", "list_fields", "execute_select_query",
     "execute_vector_select_query", "execute_semantic_select_query",
     "add_documents", "delete_documents", "commit", "execute_query",
     "get_terms", "add_schema_field", "get_schema_fields", "get_schema_field",
     "delete_schema_field", "atomic_update", "realtime_get"}

\* the classes that the except clauses of an operation re-raise
reraised(op) ==
    CASE op \in {"list_collections", "list_fields"} -> {}
      [] op = "execute_select_query"
           -> {"DocValuesError", "SQLParseError", "SQLExecutionError"}
      [] op \in {"execute_vector_select_query",
                 "execute_semantic_select_query"} -> {"QueryError", "SolrError"}
      [] op \in {"add_documents", "delete_documents", "atomic_update"}
           -> {"IndexingError", "SolrError"}
      [] op = "execute_query" -> {"QueryError"}
      [] OTHER -> {"SolrError"}

\* the class that the last except clause of an operation raises
wrapped_as(op) ==
    CASE op = "execute_select_query" -> "SQLExecutionError"
      [] op \in {"execute_vector_select_query", "execute_query"} -> "QueryError"
      [] op \in {"add_documents", "delete_documents"} -> "IndexingError"
      [] OTHER -> "SolrError"

\* the text that the last except clause of an operation puts before str(e)
wrap_prefix(op, collection) ==
    CASE op = "list_collections" -> msgListCollections
      [] op = "list_fields" -> msgListFields \o collection \o msgQuoteColon
      [] op = "execute_select_query" -> msgSqlFailed
      [] op = "execute_vector_select_query" -> msgVectorQuery
      [] op = "execute_semantic_select_query" -> msgSemantic
      [] op = "add_documents" -> msgAddDocuments
      [] op = "delete_documents" -> msgDeleteDocuments
      [] op = "commit" -> msgCommit
      [] op = "execute_query" -> msgQuery
      [] op = "get_terms" -> msgTerms
      [] op = "add_schema_field" -> msgAddField
      [] op = "get_schema_fields" -> msgSchemaFields
      [] op = "get_schema_field" -> msgField
      [] op = "delete_schema_field" -> msgDeleteField
      [] op = "atomic_update" -> msgAtomicUpdate
      [] op = "realtime_get" -> msgGet

\* faulty variant: the message of the original exception is dropped
wrap_message_without_cause(prefix, e) == prefix

\* f"<prefix>{str(e)}"
wrap_message(prefix, e) == prefix \o e.msg

\* the except clauses of an operation, applied to an exception raised in its
\* try block
except_clause(op, collection, e) ==
    IF \E cls \in reraised(op) : isinstance(e, cls) THEN e
    ELSE Exc(wrapped_as(op), wrap_message(wrap_prefix(op, collection), e))

(* ------------------------------ the server ----------------------------- *)
MaxCalls == 3      \* calls made on one client in a behaviour

\* the collections that exist on the server; Collections also holds a name
\* that does not exist
ServerCollections == {tblDocs, tblLimits}
DocIds == {str(1), str(2)}

\* latest: the version of each document in the update log, 0 when the
\* document does not exist; clock: the version given to the last write
InitialServer ==
    [ latest |-> [ c \in ServerCollections |->
                     [ id \in DocIds |-> IF c = tblDocs /\ id = str(1) THEN 1 ELSE 0 ] ],
      clock |-> 1,
      fields |-> [ c \in ServerCollections |-> {"id"} ] ]

HttpResponse(status_code, text, json) ==
    [ status_code |-> status_code, text |-> text, json |-> json ]

\* a request as it leaves the client
Req(kind, core, params, body) ==
    [ kind |-> kind, core |-> core, params |-> params, body |-> body ]

ListRequest == Req("list", <<>>, <<>>, <<>>)

\* what can go wrong between the client and the server
Faults == {"none", "transport", "http"}

\* the exception that the HTTP library raises for a fault
TransportError(fault) ==
    IF fault = "transport" THEN Exc("RequestException", txtConnectionRefused)
    ELSE Exc("pysolr.SolrError", txtBadRequest)

\* POST {core}/update with documents: each gets a new version
server_add(srv, core, ids) ==
    IF core \notin ServerCollections THEN srv ELSE
    [ srv EXCEPT !.latest[core] =
                     [ id \in DocIds |-> IF id \in Range(ids) THEN srv.clock + 1
                                         ELSE srv.latest[core][id] ],
                 !.clock = srv.clock + 1 ]

\* POST {core}/update with a delete by id or by the query *:*
server_delete(srv, core, ids, by_query) ==
    IF core \notin ServerCollections THEN srv ELSE
    [ srv EXCEPT !.latest[core] =
                     [ id \in DocIds |-> IF by_query \/ id \in Range(ids) THEN 0
                                         ELSE srv.latest[core][id] ] ]

\* the server refuses a document whose id is an update operation
update_invalid(doc) == doc["id"] \notin DocIds

\* optimistic concurrency: a positive _version_ must be the current one
update_rejected(srv, core, doc) ==
    /\ ~update_invalid(doc)
    /\ "_version_" \in DOMAIN doc
    /\ doc["_version_"] # srv.latest[core][doc["id"]]

\* POST {core}/update with an atomic update: the server's state afterwards
server_update(srv, core, doc) ==
    IF update_invalid(doc) \/ update_rejected(srv, core, doc) THEN srv
    ELSE [ srv EXCEPT !.latest[core][doc["id"]] = srv.clock + 1,
                      !.clock = srv.clock + 1 ]

\* the answer to an atomic update; `shape` is the set of keys of the body
update_response(srv, core, doc, shape) ==
    IF update_invalid(doc) THEN HttpResponse(400, txtBadRequest, <<>>)
    ELSE IF update_rejected(srv, core, doc)
    THEN HttpResponse(409, txtVersionConflictFor, <<>>)
    ELSE HttpResponse(200, <<>>,
                      [ k \in shape |-> IF k = "_version_" THEN srv.clock + 1
                                        ELSE 0 ])

\* GET {core}/get: the update log is read, committed or not
server_get(srv, core, params) ==
    IF "id" \in DOMAIN params
    THEN [ doc |-> IF srv.latest[core][params["id"]] > 0 THEN <<params["id"]>>
                   ELSE <<>> ]
    ELSE [ response |->
             [ docs |-> SelectSeq(split(params["ids"], {","}),
                                  LAMBDA id : srv.latest[core][id] > 0) ] ]

\* a commit waits for the new searcher unless waitSearcher=false is sent
server_waits_searcher(params) ==
    ~("waitSearcher" \in DOMAIN params /\ params["waitSearcher"] = "false")

(* ------------------------ the client's operations ---------------------- *)
\* what a call did: the requests it sent, the exception an inner layer
\* raised, what it returned or raised, and the server and the client after it
Res(requests, inner_exc, out, srv, cli) ==
    [ sent |-> requests, inner |-> inner_exc, outcome |-> out, server |-> srv,
      solr_client |-> cli ]

\* a call to which the server has answered with `response`
answered(response, res) == [ response |-> response ] @@ res

Ok(value) == [ status |-> "success", exc |-> NoExc, value |-> value ]
Raised(e) == [ status |-> "error", exc |-> e, value |-> <<>> ]

\* what the collection provider raises: an error of the taxonomy (ZooKeeper
\* provider) or another exception
ProviderErrors ==
    { Exc("ConnectionError", txtNotConnected), Exc("Exception", txtConnectionFailed) }

\* the provider's answer to a listing: no exception, or one of ProviderErrors
Listings == {NoExc} \cup ProviderErrors

\* SolrClient.list_collections
list_collections(listing) ==
    IF listing = NoExc THEN Ok(ServerCollections)
    ELSE Raised(except_clause("list_collections", <<>>, listing))

\* faulty variant: the collection is not looked up in the listing
collection_exists_unchecked(collection, collections) == TRUE

\* `collection in collections`
collection_exists(collection, collections) == collection \in collections

\* f"Collection '{collection}' does not exist"
does_not_exist(collection) ==
    Exc("SolrError", msgCollection \o collection \o msgDoesNotExist)

\* f"<prefix>{response.status_code}: {response.text}"
status_message(prefix, response) ==
    prefix \o str(response.status_code) \o msgColon \o response.text

\* SolrClient.add_documents
add_documents(cli, srv, collection, documents, commit, listing, fault) ==
    LET collections == list_collections(listing)
        client == get_or_create_client(cli, collection)
        request == Req("add", client, [ commit |-> commit ], documents)
        raise(requests, inner_exc, e) ==
            Res(requests, inner_exc,
                Raised(except_clause("add_documents", collection, e)), srv, cli)
    IN  IF documents = <<>>
        THEN raise(<<>>, NoExc, Exc("IndexingError", msgNoDocuments))
        ELSE IF collections.status = "error"
        THEN raise(<<ListRequest>>, listing, collections.exc)
        ELSE IF ~collection_exists(collection, collections.value)
        THEN raise(<<ListRequest>>, NoExc, does_not_exist(collection))
        ELSE IF fault # "none"
        THEN Res(<<ListRequest, request>>, TransportError(fault),
                 Raised(except_clause("add_documents", collection,
                                      TransportError(fault))), srv, client)
        ELSE Res(<<ListRequest, request>>, NoExc,
                 Ok([ collection |-> collection, num_documents |-> Len(documents),
                      committed |-> commit ]),
                 server_add(srv, client, documents), client)

\* faulty variant: only the case of both arguments is refused
delete_arguments_error_both_only(ids, query) ==
    IF ids # <<>> /\ query # <<>> THEN Exc("IndexingError", msgBothIdsAndQuery)
    ELSE NoExc

\* the validation of the arguments of delete_documents: the error it raises
delete_arguments_error(ids, query) ==
    IF ids # <<>> /\ query # <<>> THEN Exc("IndexingError", msgBothIdsAndQuery)
    ELSE IF ids = <<>> /\ query = <<>>
    THEN Exc("IndexingError", msgEitherIdsOrQuery)
    ELSE NoExc

\* SolrClient.delete_documents; ids and query are <<>> when None or empty
delete_documents(cli, srv, collection, ids, query, commit, listing, fault) ==
    LET collections == list_collections(listing)
        client == get_or_create_client(cli, collection)
        request == Req("delete", client, [ commit |-> commit ],
                       IF ids # <<>> THEN [ id |-> ids ] ELSE [ q |-> query ])
        raise(requests, inner_exc, e) ==
            Res(requests, inner_exc,
                Raised(except_clause("delete_documents", collection, e)), srv, cli)
    IN  IF delete_arguments_error(ids, query) # NoExc
        THEN raise(<<>>, NoExc, delete_arguments_error(ids, query))
        ELSE IF collections.status = "error"
        THEN raise(<<ListRequest>>, listing, collections.exc)
        ELSE IF ~collection_exists(collection, collections.value)
        THEN raise(<<ListRequest>>, NoExc, does_not_exist(collection))
        ELSE IF fault # "none"
        THEN Res(<<ListRequest, request>>, TransportError(fault),
                 Raised(except_clause("delete_documents", collection,
                                      TransportError(fault))), srv, client)
        ELSE Res(<<ListRequest, request>>, NoExc,
                 Ok([ collection |-> collection,
                      num_affected |-> IF ids # <<>> THEN Len(ids) ELSE -1,
                      committed |-> commit,
                      delete_by |-> IF ids # <<>> THEN "id" ELSE "query" ]),
                 server_delete(srv, client, ids, ids = <<>>), client)

\* the parameters of the commit request
commit_params(soft, wait_searcher, expunge_deletes) ==
    IF soft THEN ("wt" :> "json") @@ ("softCommit" :> "true")
    ELSE ("wt" :> "json") @@ ("commit" :> "true")
         @@ ("waitSearcher" :> IF wait_searcher THEN "true" ELSE "false")
         @@ ("expungeDeletes" :> IF expunge_deletes THEN "true" ELSE "false")

\* SolrClient.commit
commit(cli, srv, collection, soft, wait_searcher, expunge_deletes, listing, fault) ==
    LET collections == list_collections(listing)
        request == Req("commit", collection,
                       commit_params(soft, wait_searcher, expunge_deletes), <<>>)
        response == HttpResponse(400, txtBadRequest, <<>>)
        raise(requests, inner_exc, e) ==
            Res(requests, inner_exc,
                Raised(except_clause("commit", collection, e)), srv, cli)
    IN  IF collections.status = "error"
        THEN raise(<<ListRequest>>, listing, collections.exc)
        ELSE IF ~collection_exists(collection, collections.value)
        THEN raise(<<ListRequest>>, NoExc, does_not_exist(collection))
        ELSE IF fault = "transport"
        THEN raise(<<ListRequest, request>>, TransportError(fault),
                   TransportError(fault))
        ELSE IF fault = "http"
        THEN raise(<<ListRequest, request>>, NoExc,
                   Exc("SolrError", status_message(msgCommitStatus, response)))
        ELSE Res(<<ListRequest, request>>, NoExc,
                 Ok([ collection |-> collection,
                      commit_type |-> IF soft THEN "soft" ELSE "hard",
                      committed |-> TRUE ]), srv, cli)

\* str(version) of an optional version: <<>> is None
str_version(version) ==
    IF version = <<>> THEN <<"N","o","n","e">> ELSE str(version[1])

\* the document that atomic_update sends: id, then _version_, then the
\* caller's updates
update_doc(doc_id, updates, version) ==
    IF version = <<>> THEN updates @@ ("id" :> doc_id)
    ELSE updates @@ ("_version_" :> version[1]) @@ ("id" :> doc_id)

\* the parameters of the atomic update request
update_params(commit_now, commitWithin) ==
    IF commit_now THEN ("wt" :> "json") @@ ("commit" :> "true")
    ELSE IF commitWithin # <<>>
    THEN ("wt" :> "json") @@ ("commitWithin" :> str(commitWithin[1]))
    ELSE ("wt" :> "json")

\* faulty variant: the text of the error is searched as it is
is_version_conflict_case_sensitive(error_text) ==
    contains(error_text, SubSeq(msgVersionConflict, 1, 16))

\* `"version conflict" in error_text.lower()`
is_version_conflict(error_text) ==
    contains(lower(error_text), txtVersionConflictKey)

\* the version that atomic_update reports, <<>> for None
new_version_of(result) ==
    IF "responseHeader" \in DOMAIN result /\ "rf" \in DOMAIN result
    THEN IF "_version_" \in DOMAIN result THEN <<result["_version_"]>> ELSE <<>>
    ELSE <<>>

\* SolrClient.atomic_update; `shape` is the set of keys of the server's answer
atomic_update(cli, srv, collection, doc_id, updates, version, commit_now, commitWithin, listing, fault, shape) ==
    LET collections == list_collections(listing)
        doc == update_doc(doc_id, updates, version)
        request == Req("update", collection,
                       update_params(commit_now, commitWithin), doc)
        response == IF fault = "http" THEN HttpResponse(400, txtBadRequest, <<>>)
                    ELSE update_response(srv, collection, doc, shape)
        raise(requests, inner_exc, e) ==
            Res(requests, inner_exc,
                Raised(except_clause("atomic_update", collection, e)), srv, cli)
    IN  IF collections.status = "error"
        THEN raise(<<ListRequest>>, listing, collections.exc)
        ELSE IF ~collection_exists(collection, collections.value)
        THEN raise(<<ListRequest>>, NoExc, does_not_exist(collection))
        ELSE IF fault = "transport"
        THEN raise(<<ListRequest, request>>, TransportError(fault),
                   TransportError(fault))
        ELSE IF response.status_code # 200
        THEN IF is_version_conflict(response.text)
             THEN answered(response,
                           raise(<<ListRequest, request>>, NoExc,
                                 Exc("IndexingError",
                                     msgVersionConflict \o str_version(version)
                                       \o msgDifferentVersion)))
             ELSE answered(response,
                           raise(<<ListRequest, request>>, NoExc,
                                 Exc("SolrError",
                                     status_message(msgUpdateStatus, response))))
        ELSE answered(response,
                      Res(<<ListRequest, request>>, NoExc,
                          Ok([ doc_id |-> doc_id, collection |-> collection,
                               version |-> new_version_of(response.json),
                               updates_applied |-> Cardinality(DOMAIN updates) ]),
                          server_update(srv, collection, doc), cli))

\* the parameters of the real-time get request; fl is <<>> when None
get_params(doc_ids, fl) ==
    LET ids == IF Len(doc_ids) = 1 THEN ("wt" :> "json") @@ ("id" :> doc_ids[1])
               ELSE ("wt" :> "json") @@ ("ids" :> join(doc_ids, <<",">>))
    IN  IF fl # <<>> THEN ids @@ ("fl" :> fl) ELSE ids

\* the documents of the answer to a real-time get; a doc of <<>> is null
docs_of(result) ==
    IF "doc" \in DOMAIN result
    THEN IF result["doc"] # <<>> THEN <<result["doc"]>> ELSE <<>>
    ELSE IF "response" \in DOMAIN result THEN result["response"].docs
    ELSE <<>>

\* SolrClient.realtime_get
realtime_get(cli, srv, collection, doc_ids, fl, listing, fault) ==
    LET collections == list_collections(listing)
        request == Req("get", collection, get_params(doc_ids, fl), <<>>)
        response ==
            IF fault = "http" THEN HttpResponse(400, txtBadRequest, <<>>)
            ELSE HttpResponse(200, <<>>, server_get(srv, collection, request.params))
        found == docs_of(response.json)
        raise(requests, inner_exc, e) ==
            Res(requests, inner_exc,
                Raised(except_clause("realtime_get", collection, e)), srv, cli)
    IN  IF collections.status = "error"
        THEN raise(<<ListRequest>>, listing, collections.exc)
        ELSE IF ~collection_exists(collection, collections.value)
        THEN raise(<<ListRequest>>, NoExc, does_not_exist(collection))
        ELSE IF fault = "transport"
        THEN raise(<<ListRequest, request>>, TransportError(fault),
                   TransportError(fault))
        ELSE IF response.status_code # 200
        THEN raise(<<ListRequest, request>>, NoExc,
                   Exc("SolrError", status_message(msgGetStatus, response)))
        ELSE Res(<<ListRequest, request>>, NoExc,
                 Ok([ docs |-> found, num_found |-> Len(found),
                      collection |-> collection ]), srv, cli)

\* what the parser and the query executor raise to execute_select_query: an
\* error of the taxonomy that it re-raises, or another exception
SqlErrors ==
    { Exc("DocValuesError", txtMissingDocValues), Exc("Exception", txtUnexpected) }

\* SolrClient.execute_select_query; the statement is parsed and delegated to
\* the query executor, whose answer is `rows`
execute_select_query(cli, srv, collection, rows, failure) ==
    IF failure = NoExc
    THEN Res(<<Req("sql", collection, <<>>, <<>>)>>, NoExc, Ok(rows), srv, cli)
    ELSE Res(<<Req("sql", collection, <<>>, <<>>)>>, failure,
             Raised(except_clause("execute_select_query", collection, failure)),
             srv, cli)

\* the operations of which only the try ... except is modelled
OtherOperations ==
    PublicOperations \ {"list_collections", "execute_select_query",
                        "add_documents", "delete_documents", "commit",
                        "atomic_update", "realtime_get"}

\* what the collaborators of these operations raise: the field manager a
\* SchemaError, the vector manager a SolrError, the HTTP library its own
FailuresOf(op) ==
    IF op = "list_fields"
    THEN { Exc("SchemaError", msgListFields), TransportError("transport") }
    ELSE IF op \in {"execute_vector_select_query", "execute_semantic_select_query"}
    THEN { Exc("SolrError", txtNotFound), TransportError("transport") }
    ELSE { TransportError("transport") }

\* an operation whose try block raises `failure`
operation_fails(cli, srv, op, collection, failure) ==
    Res(<<>>, failure, Raised(except_clause(op, collection, failure)), srv, cli)

(* ------------------------------- state --------------------------------- *)
VARIABLES
    pc,           \* where the call of execute_vector_select_query stands
    base,         \* the caller's statement, as composed
    query,        \* the caller's statement, as text
    ast,          \* syntax tree returned by parse_and_validate_select
    top_k,        \* candidates requested from the similarity search
    docs,         \* docs of the similarity search response
    doc_ids,      \* vector_results.get_doc_ids()
    stmt,         \* the statement sent to the SQL endpoint
    result,       \* <<>> or <<rows>>: what the call returned
    error,        \* the error the call raised
    calls,        \* requests sent to and responses received from the server
    steps,        \* the steps of the call that were started, in order
    solr_client,  \* self._solr_client: <<>> or the collection it is bound to
    call,         \* the latest call of another public operation
    sent,         \* the requests that call sent to the server, in order
    inner,        \* the exception an inner layer raised during that call
    outcome,      \* what that call returned or raised
    server,       \* the documents and schema fields the server holds
    schema_cache, \* FieldManager's cached schema of each collection
    just_added,   \* the add_documents(commit=False) that has just succeeded
    ncalls,       \* the number of calls made so far
    last_response, \* the server's answer to the request of that call
    imports,      \* the import of the tools package: its namespace so far
    watcher,      \* the file watcher: its tasks, the file and the index
    client_calls  \* the calls that the client received from the tool called

\* the state of one vector-filtered query
queryVars == <<pc, base, query, ast, top_k, docs, doc_ids, stmt, result, error,
               calls, steps>>

\* the state the other operations read and write
opVars == <<call, sent, inner, outcome, server, schema_cache, just_added,
            ncalls, last_response, imports, watcher, client_calls>>

\* the state outside the client
otherVars == <<imports, watcher, client_calls>>

vars == <<pc, base, query, ast, top_k, docs, doc_ids, stmt, result, error,
          calls, steps, solr_client, call, sent, inner, outcome, server,
          schema_cache, just_added, ncalls, last_response, imports, watcher,
          client_calls>>

\* no call of another operation yet
NoCall == [ op |-> "none", collection |-> <<>>, args |-> <<>> ]
NoOutcome == [ status |-> "none", exc |-> NoExc, value |-> <<>> ]
NoAdd == [ collection |-> <<>>, ids |-> <<>> ]
NoResponse == HttpResponse(0, <<>>, <<>>)

\* the tools package before it is imported: no statement executed, nothing
\* bound
NoImport ==
    [ pc |-> 0, decorated |-> {}, members |-> {}, all |-> {}, tools |-> {} ]

\* the watcher after CodebaseIndexer.__init__, the file absent and not indexed
InitialWatcher ==
    [ now |-> 0, exists |-> FALSE, indexed |-> FALSE, pending_updates |-> <<>>,
      tasks |-> <<>>, events |-> <<>>, reindexed |-> <<>> ]

NoBase == [ table |-> <<>>, where |-> <<>>, order |-> FALSE, n |-> 0, m |-> 0,
            casing |-> "upper" ]
NoAst == [ k \in {} |-> 0 ]

Init ==
    /\ pc = "idle"
    /\ base = NoBase
    /\ query = <<>>
    /\ ast = NoAst
    /\ top_k = 0
    /\ docs = <<>>
    /\ doc_ids = <<>>
    /\ stmt = <<>>
    /\ result = <<>>
    /\ error = NoError
    /\ calls = <<>>
    /\ steps = <<>>
    /\ solr_client = <<>>
    /\ call = NoCall
    /\ sent = <<>>
    /\ inner = NoExc
    /\ outcome = NoOutcome
    /\ last_response = NoResponse
    /\ imports = NoImport
    /\ watcher = InitialWatcher
    /\ client_calls = <<>>
    /\ server = InitialServer
    /\ schema_cache = [ c \in ServerCollections |-> <<>> ]
    /\ just_added = NoAdd
    /\ ncalls = 0

\* the call ends with the error that the except clause raises
Raise(e) ==
    /\ pc' = "raised"
    /\ error' = on_exception(e)

\* execute_vector_select_query is called: the statement is parsed, then the
\* vector field validation is awaited (client.py 187-194)
Begin ==
    /\ pc = "idle"
    /\ \E b \in Bases :
         /\ base' = b
         /\ query' = Render(b)
         /\ steps' = <<"parse">>
         /\ \/ /\ ast' = parse_and_validate_select(b)
               /\ pc' = "validating"
               /\ UNCHANGED error
            \/ /\ \E t \in StepErrors("parse") : Raise(raised_by(t))
               /\ UNCHANGED ast
    /\ UNCHANGED <<top_k, docs, doc_ids, stmt, result, calls, solr_client>>
    /\ UNCHANGED opVars

\* validate_vector_field returns, looking the schema up on the server unless
\* the field is cached; then limit, offset and top_k are computed and the
\* similarity search is requested (client.py 192-221)
FieldValidated ==
    /\ pc = "validating"
    /\ steps' = steps \o <<"validate">>
    /\ \E cached \in BOOLEAN :
         LET lookups == IF cached THEN <<>>
                        ELSE << [ op |-> "schema", ev |-> "send", core |-> ast["from"] ],
                                [ op |-> "schema", ev |-> "recv", core |-> ast["from"] ] >>
         IN  \/ /\ top_k' = top_k_of(ast)
                /\ solr_client' = get_or_create_client(solr_client, ast["from"])
                /\ calls' = calls \o lookups \o
                     << [ op |-> request_after("validate"), ev |-> "send",
                          core |-> solr_client', top_k |-> top_k' ] >>
                /\ pc' = "searching"
                /\ UNCHANGED error
             \/ /\ \E t \in StepErrors("validate") : Raise(raised_by(t))
                /\ calls' = calls \o lookups
                /\ UNCHANGED <<top_k, solr_client>>
    /\ UNCHANGED <<base, query, ast, docs, doc_ids, stmt, result>>
    /\ UNCHANGED opVars

\* execute_vector_search returns; the response is converted, the statement is
\* rewritten and sent to the SQL endpoint (client.py 219-270)
SearchReturned ==
    /\ pc = "searching"
    /\ steps' = steps \o <<"search">>
    /\ \/ \E ranking \in Rankings, shape \in Shapes :
            /\ docs' = execute_vector_search(ranking, shape, top_k)
            /\ doc_ids' = get_doc_ids(from_solr_response(docs', top_k))
            /\ stmt' = rewrite(query, doc_ids', limit_of(ast))
            /\ calls' = calls \o
                 << [ op |-> "knn", ev |-> "recv", core |-> solr_client ],
                    [ op |-> request_after("search"), ev |-> "send",
                      core |-> ast["from"] ] >>
            /\ pc' = "executing"
            /\ UNCHANGED error
       \/ /\ \E t \in StepErrors("search") : Raise(raised_by(t))
          /\ calls' = calls \o << [ op |-> "knn", ev |-> "recv", core |-> solr_client ] >>
          /\ UNCHANGED <<docs, doc_ids, stmt>>
    /\ UNCHANGED <<base, query, ast, top_k, result, solr_client>>
    /\ UNCHANGED opVars

\* the SQL endpoint answers: the rows of a valid statement, an error for an
\* invalid one, or the request fails (client.py 268-275)
SqlReturned ==
    /\ pc = "executing"
    /\ steps' = steps \o <<"sql">>
    /\ calls' = calls \o << [ op |-> "sql", ev |-> "recv", core |-> ast["from"] ] >>
    /\ \/ /\ IsValidSql(stmt)
          /\ result' = << SqlRows(stmt) >>
          /\ pc' = "done"
          /\ UNCHANGED error
       \/ /\ ~IsValidSql(stmt)
          /\ Raise(raised_by("SQLExecutionError"))
          /\ UNCHANGED result
       \/ /\ \E t \in StepErrors("sql") : Raise(raised_by(t))
          /\ UNCHANGED result
    /\ UNCHANGED <<base, query, ast, top_k, docs, doc_ids, stmt, solr_client>>
    /\ UNCHANGED opVars

Next == Begin \/ FieldValidated \/ SearchReturned \/ SqlReturned

Spec == Init /\ [][Next]_vars

(* ============================ properties =============================== *)
Rewritten == pc \in {"executing", "done"} \/ (pc = "raised" /\ Len(steps) = 4)

IsSend(c) == c.ev = "send"
Sends == SelectSeq(calls, IsSend)
SentOps == [ i \in 1..Len(Sends) |-> Sends[i].op ]

IsPrefix(s, t) == Len(s) <= Len(t) /\ s = SubSeq(t, 1, Len(s))

\* the limit and offset the caller wrote, with the defaults for absent clauses
CallerLimit == IF base.n = 0 THEN 10 ELSE base.n
CallerOffset == base.m

\* the IDs listed by the `id IN (...)` predicate of a statement
IdsInStmt(s) ==
    LET opening == colId \o <<" ">> \o kwIN \o <<" ","(">>
        start == find(s, opening) + Len(opening) + 1
        rest == SubSeq(s, start, Len(s))
    IN  split(SubSeq(rest, 1, find(rest, <<")">>)), {","})

\* C1: when the similarity search returns no candidate, the statement sent to
\* the SQL endpoint carries the injected `1=0` predicate and the query returns
\* no row.
C1_EmptyCandidatesNoRows ==
    (Rewritten /\ doc_ids = <<>>) =>
        /\ \/ contains(stmt, <<" ">> \o kwWHERE \o <<" ","1","=","0">>)
           \/ contains(stmt, <<" ">> \o kwAND \o <<" ","1","=","0">>)
        /\ (pc = "done" => result = << <<>> >>)

\* C2: the similarity search is asked for exactly limit + offset candidates,
\* the limit defaulting to 10 and the offset to 0.
C2_TopKIsLimitPlusOffset ==
    \A i \in 1..Len(calls) :
        (calls[i].op = "knn" /\ calls[i].ev = "send") =>
            calls[i].top_k = CallerLimit + CallerOffset

C2_Witness ==
    /\ base.n > 0 /\ base.m > 0
    /\ \E i \in 1..Len(calls) : calls[i].op = "knn" /\ calls[i].ev = "send"

\* C3: the ID filter is attached with AND exactly when the base statement has
\* a WHERE clause, and with a new WHERE exactly when it has none.
C3_AndIffWhereClause ==
    Rewritten =>
        LET withAnd == \/ contains(stmt, <<" ">> \o kwAND \o <<" ">> \o colId \o <<" ">> \o kwIN)
                       \/ contains(stmt, <<" ">> \o kwAND \o <<" ","1","=","0">>)
            withWhere == \/ contains(stmt, <<" ">> \o kwWHERE \o <<" ">> \o colId \o <<" ">> \o kwIN)
                         \/ contains(stmt, <<" ">> \o kwWHERE \o <<" ","1","=","0">>)
        IN  /\ withAnd <=> (base.where # <<>>)
            /\ withWhere <=> (base.where = <<>>)

\* C4: the rewritten statement of a parseable base statement is syntactically
\* valid SQL.
C4_RewrittenIsValidSql ==
    Rewritten => (IsValidSql(query) => IsValidSql(stmt))

\* C5: the rewritten statement has exactly one LIMIT clause, with the caller's
\* limit value, or 10 when the base statement had no LIMIT.
C5_ExactlyOneLimit ==
    Rewritten =>
        LET toks == Tokens(stmt)
            at == { i \in 1..Len(toks) : IsKw(toks[i], kwLIMIT) }
        IN  /\ Cardinality(at) = 1
            /\ \A i \in at : i < Len(toks) /\ toks[i + 1] = str(CallerLimit)

C7_IdOrderPreserved ==
    (Rewritten /\ docs # <<>>) =>
        IdsInStmt(stmt) = [ i \in 1..Len(docs) |-> docid_of(docs[i]) ]

C7_Witness ==
    /\ Rewritten /\ Len(docs) >= 2
    /\ int(docid_of(docs[1])) > int(docid_of(docs[2]))

\* C8: WHERE and LIMIT are detected in any letter case, and a statement whose
\* keywords are lower case or capitalised is rewritten as the same statement
\* with upper-case keywords is, up to the case of letters.
C8_CaseInsensitiveDetection ==
    Rewritten =>
        LET bu == [base EXCEPT !.casing = "upper"]
        IN  /\ base.where # <<>> => has_where(query)
            /\ base.n # 0 => has_limit(query)
            /\ upper(stmt) = upper(rewrite(Render(bu), doc_ids,
                                           limit_of(parse_and_validate_select(bu))))

C8_Witness ==
    /\ Rewritten /\ base.casing # "upper" /\ base.where # <<>> /\ base.n # 0
    /\ base.table = tblDocs

\* C9: a failing step ends the call with a typed error: no step runs twice,
\* no step runs after the failure and nothing is returned.
C9_FailureAborts ==
    /\ [](pc = "raised" =>
            /\ error.type \in TypedErrors
            /\ result = <<>>
            /\ IsPrefix(steps, <<"parse", "validate", "search", "sql">>))
    /\ [][pc = "raised" => UNCHANGED vars]_vars

C9_Witness ==
    /\ pc = "raised" /\ steps = <<"parse", "validate", "search">>
    /\ error.wrapped

Batches == { <<>>, <<str(1)>>, <<str(1), str(2)>> }
IdLists == { <<>>, <<str(2)>>, <<str(1), str(2)>> }
qAll == <<"*",":","*">>
DeleteQueries == { <<>>, qAll }
DocIdLists == { <<str(1)>>, <<str(2)>>, <<str(1), str(2)>> }
VersionArgs == { <<>>, <<1>>, <<2>> }
\* the update maps: a field operation, and an operation on the id field
UpdateMaps == { "price" :> <<"set", "9">>, "id" :> <<"set", "2">> }
AnswerShapes == { {"responseHeader"}, {"responseHeader", "rf", "_version_"} }

Call(op, collection, args) == [ op |-> op, collection |-> collection, args |-> args ]

\* how the provider and the server answer one call: the listing fails, or
\* it succeeds and the request that follows meets a fault or none
Answers ==
    { [ listing |-> e, fault |-> "none" ] : e \in ProviderErrors }
      \cup { [ listing |-> NoExc, fault |-> f ] : f \in Faults }

\* a call c is made and ends as r says
Do(c, r) ==
    /\ call = NoCall
    /\ ncalls < MaxCalls
    /\ ncalls' = ncalls + 1
    /\ call' = c
    /\ sent' = r.sent
    /\ inner' = r.inner
    /\ outcome' = r.outcome
    /\ last_response' = IF "response" \in DOMAIN r THEN r.response ELSE NoResponse
    /\ UNCHANGED otherVars
    /\ server' = r.server
    /\ solr_client' = r.solr_client
    /\ just_added' =
         IF c.op = "add_documents" /\ r.outcome.status = "success" /\ ~c.args.commit
         THEN [ collection |-> c.collection, ids |-> c.args.documents ]
         ELSE IF c.op = "realtime_get" THEN just_added
         ELSE NoAdd
    /\ UNCHANGED queryVars
    /\ UNCHANGED schema_cache

ListCollections ==
    \E listing \in Listings :
        Do(Call("list_collections", <<>>, <<>>),
           Res(<<ListRequest>>, listing, list_collections(listing), server,
               solr_client))

ExecuteSelectQuery ==
    \E collection \in ServerCollections, failure \in {NoExc} \cup SqlErrors :
        Do(Call("execute_select_query", collection, <<>>),
           execute_select_query(solr_client, server, collection, <<>>, failure))

AddDocuments ==
    \E collection \in Collections, documents \in Batches, commit_now \in BOOLEAN,
       a \in Answers :
        Do(Call("add_documents", collection,
                [ documents |-> documents, commit |-> commit_now ]),
           add_documents(solr_client, server, collection, documents, commit_now,
                         a.listing, a.fault))

DeleteDocuments ==
    \E collection \in Collections, ids \in IdLists, q \in DeleteQueries,
       commit_now \in BOOLEAN, a \in Answers :
        Do(Call("delete_documents", collection,
                [ ids |-> ids, query |-> q, commit |-> commit_now ]),
           delete_documents(solr_client, server, collection, ids, q, commit_now,
                            a.listing, a.fault))

Commit ==
    \E collection \in Collections, soft \in BOOLEAN, wait_searcher \in BOOLEAN,
       expunge_deletes \in BOOLEAN, a \in Answers :
        Do(Call("commit", collection,
                [ soft |-> soft, wait_searcher |-> wait_searcher,
                  expunge_deletes |-> expunge_deletes ]),
           commit(solr_client, server, collection, soft, wait_searcher,
                  expunge_deletes, a.listing, a.fault))

AtomicUpdate ==
    \E collection \in Collections, doc_id \in DocIds, updates \in UpdateMaps,
       version \in VersionArgs, commit_now \in BOOLEAN, a \in Answers,
       shape \in AnswerShapes :
        Do(Call("atomic_update", collection,
                [ doc_id |-> doc_id, updates |-> updates, version |-> version,
                  commit |-> commit_now ]),
           atomic_update(solr_client, server, collection, doc_id, updates,
                         version, commit_now, <<>>, a.listing, a.fault, shape))

RealtimeGet ==
    \E collection \in Collections, ids \in DocIdLists, a \in Answers :
        Do(Call("realtime_get", collection, [ doc_ids |-> ids ]),
           realtime_get(solr_client, server, collection, ids, <<>>, a.listing,
                        a.fault))

OperationFails ==
    \E op \in OtherOperations, collection \in {tblDocs} :
        \E failure \in FailuresOf(op) :
            Do(Call(op, collection, <<>>),
               operation_fails(solr_client, server, op, collection, failure))

\* the caller takes what the call returned or raised
Returned ==
    /\ call # NoCall
    /\ call' = NoCall
    /\ sent' = <<>>
    /\ inner' = NoExc
    /\ outcome' = NoOutcome
    /\ last_response' = NoResponse
    /\ UNCHANGED otherVars
    /\ UNCHANGED <<server, solr_client, schema_cache, just_added, ncalls>>
    /\ UNCHANGED queryVars

ClientNext ==
    \/ Returned
    \/ ListCollections
    \/ ExecuteSelectQuery
    \/ AddDocuments
    \/ DeleteDocuments
    \/ Commit
    \/ AtomicUpdate
    \/ RealtimeGet
    \/ OperationFails

ClientSpec == Init /\ [][ClientNext]_vars

(* ============================ properties =============================== *)
\* an exception of the taxonomy / another exception was raised by an inner
\* layer during the latest call
InnerTyped == inner # NoExc /\ inner.type \in TypedErrors
InnerUntyped == inner # NoExc /\ inner.type \notin TypedErrors

\* C11: a typed error raised by an inner layer reaches the caller of a public
\* operation unchanged: same class, same message, never wrapped.
C11_TypedErrorsUnchanged ==
    InnerTyped => (outcome.status = "error" /\ outcome.exc = inner)

\* C12: an exception outside the taxonomy raised inside a public operation
\* reaches the caller as a typed error whose message contains the message of
\* the original exception.
C12_UntypedErrorsWrapped ==
    InnerUntyped =>
        /\ outcome.status = "error"
        /\ outcome.exc.type \in TypedErrors
        /\ contains(outcome.exc.msg, inner.msg)

C12_Witness ==
    /\ InnerUntyped
    /\ call.op = "commit"
    /\ outcome.exc.type = "SolrError"
    /\ outcome.exc.msg = msgCommit \o txtConnectionRefused

\* C13: calls on a client share no mutable state: the requests an
\* add_documents call sends and what it returns are those a client without
\* earlier calls would send and return for the same arguments on the same
\* server
C13_CallsShareNoState ==
    \A collection \in ServerCollections, documents \in Batches \ {<<>>} :
        LET here == add_documents(solr_client, server, collection, documents,
                                  FALSE, NoExc, "none")
            fresh == add_documents(<<>>, server, collection, documents,
                                   FALSE, NoExc, "none")
        IN  here.sent = fresh.sent /\ here.outcome = fresh.outcome

\* delete_documents was called with both ids and query, or with neither
BothOrNeither ==
    /\ call.op = "delete_documents"
    /\ (call.args.ids # <<>>) <=> (call.args.query # <<>>)

\* C14: delete_documents called with both ids and query, or with neither,
\* raises IndexingError and has sent no request: neither the listing of the
\* collections nor a delete
C14_DeleteArgumentsChecked ==
    BothOrNeither =>
        /\ outcome.status = "error"
        /\ outcome.exc.type = "IndexingError"
        /\ sent = <<>>

C14_Witness ==
    /\ BothOrNeither
    /\ call.args.ids = <<>>
    /\ outcome.exc = Exc("IndexingError", msgEitherIdsOrQuery)
    /\ solr_client # <<>>

\* the operations that check the collection against the listing
ListingOperations == {"add_documents", "delete_documents", "commit"}

\* the call named a collection that the listing it received does not contain
NotListed ==
    /\ call.op \in ListingOperations
    /\ sent # <<>> /\ sent[1] = ListRequest /\ inner = NoExc
    /\ call.collection \notin ServerCollections

\* C15: when the named collection is not among the listed collections,
\* add_documents, delete_documents and commit raise
\* SolrError "Collection '<name>' does not exist" and send no add, delete or
\* commit request
C15_MissingCollectionRefused ==
    NotListed =>
        /\ outcome.status = "error"
        /\ outcome.exc =
             Exc("SolrError", msgCollection \o call.collection \o msgDoesNotExist)
        /\ \A i \in DOMAIN sent : sent[i].kind \notin {"add", "delete", "commit"}

C15_Witness ==
    /\ NotListed
    /\ call.op = "commit"
    /\ outcome.exc.msg =
         <<"C","o","l","l","e","c","t","i","o","n"," ","'">> \o tblElsewhere
           \o <<"'"," ","d","o","e","s"," ","n","o","t"," ","e","x","i","s","t">>
    /\ sent = <<ListRequest>>

\* the server has rejected the atomic update of the call because the version
\* the caller supplied is not the current version of the document
VersionRejected ==
    /\ call.op = "atomic_update"
    /\ call.args.version # <<>>
    /\ Len(sent) = 2 /\ sent[2].kind = "update"
    /\ last_response.status_code = 409
    /\ update_rejected(server, call.collection, sent[2].body)

\* C16: an atomic update that the server rejects because the supplied
\* version is not the document's current version reaches the caller as
\* IndexingError
C16_VersionConflictIsIndexingError ==
    VersionRejected =>
        /\ outcome.status = "error"
        /\ outcome.exc.type = "IndexingError"

C16_Witness ==
    /\ VersionRejected
    /\ call.args.version = <<2>> /\ call.args.doc_id = str(1)
    /\ server.latest[call.collection][str(1)] = 1
    /\ outcome.exc.type = "IndexingError"
    /\ contains(outcome.exc.msg, <<"E","x","p","e","c","t","e","d"," ","v","e","r","s","i","o","n"," ","2"," ">>)

\* realtime_get has returned, on the collection of the documents that
\* add_documents(commit=False) has just added, and was asked for some of them
ReadsOwnWrite(id) ==
    /\ call.op = "realtime_get"
    /\ outcome.status = "success"
    /\ just_added.collection = call.collection
    /\ id \in Range(just_added.ids) \cap Range(call.args.doc_ids)

\* C17: after add_documents(collection, documents, commit=False) has
\* returned success, realtime_get on the same collection for the id of a
\* document just added returns that document, without a commit
C17_ReadYourOwnWrites ==
    \A id \in DocIds : ReadsOwnWrite(id) => id \in Range(outcome.value.docs)

\* C20: commit honours the caller's wait_searcher choice for soft commits as
\* for hard commits: a commit requested with wait_searcher=False is sent so
\* that the server does not wait for the new searcher
C20_CommitHonoursWaitSearcher ==
    \A i \in DOMAIN sent :
        (call.op = "commit" /\ sent[i].kind = "commit" /\ ~call.args.wait_searcher)
            => ~server_waits_searcher(sent[i].params)

(* ------------------------- the schema operations ----------------------- *)
\* names of the fields that are added and deleted
FieldNames == {"price", "title"}

\* the cache of the field manager when it holds no schema
NoCache == [ c \in ServerCollections |-> <<>> ]

\* FieldManager.get_schema: the schema of the collection, from the cache when
\* it holds one, else from the server, whose answer is then cached
get_schema(cache, srv, collection) ==
    IF cache[collection] # <<>>
    THEN [ schema |-> cache[collection][1], cache |-> cache, sent |-> <<>> ]
    ELSE [ schema |-> srv.fields[collection],
           cache |-> [ cache EXCEPT ![collection] = <<srv.fields[collection]>> ],
           sent |-> <<Req("schema", collection, <<>>, <<>>)>> ]

\* SolrClient.list_fields: the fields that the field manager lists
list_fields(cache, srv, collection) ==
    Ok(get_schema(cache, srv, collection).schema)

\* POST {collection}/schema: the server refuses to add a field that exists
\* and to delete one that does not
schema_response(srv, collection, command, field_name) ==
    IF (command = "add-field") = (field_name \in srv.fields[collection])
    THEN HttpResponse(400, txtBadRequest, <<>>)
    ELSE HttpResponse(200, <<>>, <<>>)

\* the server after the command
server_schema(srv, collection, command, field_name) ==
    IF schema_response(srv, collection, command, field_name).status_code # 200
    THEN srv
    ELSE IF command = "add-field"
    THEN [ srv EXCEPT !.fields[collection] = @ \cup {field_name} ]
    ELSE [ srv EXCEPT !.fields[collection] = @ \ {field_name} ]

\* SolrClient.add_schema_field
add_schema_field(srv, collection, field_name) ==
    LET response == schema_response(srv, collection, "add-field", field_name)
    IN  IF response.status_code \notin {200, 201}
        THEN Raised(Exc("SolrError", status_message(msgSchemaStatus, response)))
        ELSE Ok([ field |-> field_name, collection |-> collection ])

\* SolrClient.delete_schema_field
delete_schema_field(srv, collection, field_name) ==
    LET response == schema_response(srv, collection, "delete-field", field_name)
    IN  IF response.status_code \notin {200, 201}
        THEN Raised(Exc("SolrError", status_message(msgSchemaStatus, response)))
        ELSE Ok([ field_name |-> field_name, collection |-> collection ])

\* SolrClient.get_schema_fields: asks the server at every call
get_schema_fields(srv, collection) ==
    Ok([ fields |-> srv.fields[collection], collection |-> collection,
         total_fields |-> Cardinality(srv.fields[collection]) ])

\* a schema operation c is called: it sends `requests`, ends as `out` says and
\* leaves the server as srv and the cache of the field manager as cache
DoSchema(c, requests, out, srv, cache) ==
    /\ call = NoCall
    /\ ncalls < MaxCalls
    /\ ncalls' = ncalls + 1
    /\ call' = c
    /\ sent' = requests
    /\ inner' = NoExc
    /\ outcome' = out
    /\ last_response' = NoResponse
    /\ UNCHANGED otherVars
    /\ server' = srv
    /\ schema_cache' = cache
    /\ UNCHANGED <<solr_client, just_added>>
    /\ UNCHANGED queryVars

ListFields ==
    \E collection \in ServerCollections :
        LET schema == get_schema(schema_cache, server, collection)
        IN  DoSchema(Call("list_fields", collection, <<>>), schema.sent,
                     list_fields(schema_cache, server, collection), server,
                     schema.cache)

AddSchemaField ==
    \E collection \in ServerCollections, field_name \in FieldNames :
        DoSchema(Call("add_schema_field", collection, [ field_name |-> field_name ]),
                 <<Req("schema", collection, <<>>, [ name |-> field_name ])>>,
                 add_schema_field(server, collection, field_name),
                 server_schema(server, collection, "add-field", field_name),
                 schema_cache)

DeleteSchemaField ==
    \E collection \in ServerCollections, field_name \in FieldNames :
        DoSchema(Call("delete_schema_field", collection,
                      [ field_name |-> field_name ]),
                 <<Req("schema", collection, <<>>, [ name |-> field_name ])>>,
                 delete_schema_field(server, collection, field_name),
                 server_schema(server, collection, "delete-field", field_name),
                 schema_cache)

GetSchemaFields ==
    \E collection \in ServerCollections :
        DoSchema(Call("get_schema_fields", collection, <<>>),
                 <<Req("schema", collection, <<>>, <<>>)>>,
                 get_schema_fields(server, collection), server, schema_cache)

\* FieldManager.clear_cache(collection)
ClearCache ==
    \E collection \in ServerCollections :
        /\ call = NoCall
        /\ schema_cache[collection] # <<>>
        /\ schema_cache' = [ schema_cache EXCEPT ![collection] = <<>> ]
        /\ UNCHANGED <<call, sent, inner, outcome, last_response, server,
                       solr_client, just_added, ncalls, imports, watcher,
                       client_calls>>
        /\ UNCHANGED queryVars

SchemaNext ==
    \/ Returned
    \/ ListFields
    \/ AddSchemaField
    \/ DeleteSchemaField
    \/ GetSchemaFields
    \/ ClearCache

SchemaSpec == Init /\ [][SchemaNext]_vars

\* C18: the cache of schema fields is not correctness-critical: after any
\* sequence of operations, additions and deletions of fields included,
\* list_fields returns what it would return with the cache omitted and the
\* schema asked of the server
C18_CacheNotCritical ==
    (call.op = "list_fields" /\ outcome.status = "success")
        => outcome = list_fields(NoCache, server, call.collection)

(* --------------------- the search tools with a fallback ---------------- *)
txtNoRawQuery ==
    <<"'","S","o","l","r","C","l","i","e","n","t","'"," ","o","b","j","e","c","t",
      " ","h","a","s"," ","n","o"," ","a","t","t","r","i","b","u","t","e"," ",
      "'","e","x","e","c","u","t","e","_","r","a","w","_","q","u","e","r","y","'">>
txtSolrUnavailable ==
    <<"S","o","l","r"," ","u","n","a","v","a","i","l","a","b","l","e">>
txtContent == <<"c","o","n","t","e","n","t",":">>
txtSource == <<"s","o","u","r","c","e",":","*">>
txtTags == <<"t","a","g","s","_","s","s",":">>
txtAnd == <<" ","A","N","D"," ">>
patTest == <<"t","e","s","t">>
patStar == <<"*",".","p","y">>
extPy == <<".","p","y">>
lineMatch == <<"a",".","p","y",":","t","e","s","t">>
lineNoColon == <<"B","i","n","a","r","y"," ","f","i","l","e">>

\* s.lstrip(chars)
RECURSIVE lstrip(_, _)
lstrip(s, chars) ==
    IF s # <<>> /\ s[1] \in chars THEN lstrip(Tail(s), chars) ELSE s

\* lines[:n]: the first n elements, or all but the last -n when n is negative
Take(lines, n) ==
    IF n >= 0 THEN SubSeq(lines, 1, IF n < Len(lines) THEN n ELSE Len(lines))
    ELSE SubSeq(lines, 1, IF Len(lines) + n > 0 THEN Len(lines) + n ELSE 0)

\* str(n) of an integer that may be negative
str_int(n) == IF n < 0 THEN <<"-">> \o str(0 - n) ELSE str(n)

\* the tools and the command of the fallback of each
SearchTools == {"execute_fast_codebase_search", "execute_fast_file_find"}

\* faulty variant: the fallback's results are tagged as results of Solr
fallback_method_as_solr(tool) == "solr"

\* the tag of the fallback of the tool: results["search_method"] = ...
fallback_method(tool) ==
    IF tool = "execute_fast_codebase_search" THEN "grep" ELSE "find"

\* the command that the fallback of the tool runs: cmd[0]
fallback_command(tool) ==
    IF tool = "execute_fast_codebase_search" THEN "grep" ELSE "find"

\* results["search_method"] = method
tagged(results, method) == ("search_method" :> method) @@ results

\* the query of _solr_search and of _solr_find; file_type is <<>> when None
solr_query(tool, pattern, file_type) ==
    LET first == IF tool = "execute_fast_codebase_search" THEN txtContent \o pattern
                 ELSE txtSource \o lstrip(pattern, {".", "/"}) \o <<"*">>
    IN  IF file_type # <<>>
        THEN join(<<first, txtTags \o lstrip(file_type, {"."})>>, txtAnd)
        ELSE first

\* the answers of mcp.solr_client.execute_raw_query: the SolrClient of the
\* source has no such method; a client that has it raises or answers with
\* docs and numFound
RawQueryAnswers ==
    { [ exc |-> e, docs |-> 0, numFound |-> 0 ] :
          e \in { Exc("AttributeError", txtNoRawQuery),
                  Exc("Exception", txtSolrUnavailable) } }
      \cup { [ exc |-> NoExc, docs |-> d, numFound |-> n ] :
               d \in 0..2, n \in {2, 3} }

\* _solr_search, _solr_find: the results built from the answer
solr_results(pattern, answer) ==
    [ success |-> TRUE, pattern |-> pattern, total |-> answer.numFound,
      returned_results |-> answer.docs ]

\* what subprocess.run gives the fallback: the lines of the output, or an
\* exception (TimeoutExpired or another)
CommandOutputs ==
    { [ exc |-> e, lines |-> <<>> ] :
          e \in { Exc("TimeoutExpired", <<>>), Exc("OSError", <<>>) } }
      \cup { [ exc |-> NoExc, lines |-> l ] :
               l \in { <<>>, <<lineMatch>>, <<lineNoColon, lineMatch>>,
                       <<lineMatch, lineMatch, lineMatch>> } }

\* _grep_fallback, _find_fallback: the results built from the output
fallback_results(tool, pattern, max_results, output) ==
    IF output.exc # NoExc
    THEN [ success |-> FALSE, pattern |-> pattern, error |-> output.exc.type ]
    ELSE LET first == Take(output.lines, max_results)
             matches == IF tool = "execute_fast_codebase_search"
                        THEN SelectSeq(first, LAMBDA line : contains(line, <<":">>))
                        ELSE first
         IN  [ success |-> TRUE, pattern |-> pattern, total |-> Len(output.lines),
               returned_results |-> Len(matches), matches |-> matches ]

\* execute_fast_codebase_search, execute_fast_file_find
execute_fast(cli, srv, tool, pattern, file_type, max_results, answer, output) ==
    LET request == Req("raw_query", <<>>,
                       [ q |-> solr_query(tool, pattern, file_type),
                         rows |-> str_int(max_results) ], <<>>)
        asked == IF answer.exc.type = "AttributeError" THEN <<>> ELSE <<request>>
        warning == Req("warning", <<>>, <<>>, answer.exc.msg)
        command == Req(fallback_command(tool), <<>>, <<>>, pattern)
    IN  IF answer.exc = NoExc
        THEN Res(asked, NoExc, Ok(tagged(solr_results(pattern, answer), "solr")),
                 srv, cli)
        ELSE Res(asked \o <<warning, command>>, answer.exc,
                 Ok(tagged(fallback_results(tool, pattern, max_results, output),
                           fallback_method(tool))), srv, cli)

MaxResults == 2

\* the values of max_results: an integer, which the tools do not check
MaxResultsArgs == (0 - 1) .. MaxResults

FastSearch ==
    \E tool \in SearchTools, pattern \in {patTest, patStar},
       file_type \in {<<>>, extPy}, max_results \in MaxResultsArgs,
       answer \in RawQueryAnswers, output \in CommandOutputs :
        /\ answer.exc = NoExc => output = [ exc |-> NoExc, lines |-> <<>> ]
        /\ Do(Call(tool, <<>>,
                   [ pattern |-> pattern, file_type |-> file_type,
                     max_results |-> max_results ]),
              execute_fast(solr_client, server, tool, pattern, file_type,
                           max_results, answer, output))

ToolsNext ==
    \/ Returned
    \/ FastSearch

ToolsSpec == Init /\ [][ToolsNext]_vars

\* the local command of the fallback was run for the call
FallbackRan ==
    \E i \in DOMAIN sent : sent[i].kind \in {"grep", "find"}

\* C19: every result of fast_codebase_search and fast_file_find carries a
\* search_method tag that names the path that produced it: "solr" when the
\* Solr query answered, "grep" / "find" when the local command was run
C19_SearchMethodTagged ==
    (call.op \in SearchTools /\ outcome.status = "success") =>
        /\ "search_method" \in DOMAIN outcome.value
        /\ outcome.value["search_method"] =
             IF ~FallbackRan THEN "solr"
             ELSE IF call.op = "execute_fast_codebase_search" THEN "grep"
             ELSE "find"

C19_Witness ==
    /\ call.op = "execute_fast_file_find"
    /\ FallbackRan
    /\ inner = Exc("Exception", txtSolrUnavailable)
    /\ outcome.value["search_method"] = "find"
    /\ outcome.value["returned_results"] = 2

\* C21: when atomic_update is called with a version and succeeds, the
\* version of the returned result is the new version of the document
C21_ReturnsNewVersion ==
    (/\ call.op = "atomic_update"
     /\ call.args.version # <<>>
     /\ outcome.status = "success")
        => outcome.value.version
             = <<server.latest[call.collection][call.args.doc_id]>>

(* --------------------- the import of the tools package ----------------- *)
\* the `from .module import names` statements of tools/__init__.py, in order
ImportStatements ==
    << [ module |-> "solr_add_documents", names |-> {"execute_add_documents"} ],
       [ module |-> "solr_atomic_update", names |-> {"execute_atomic_update"} ],
       [ module |-> "solr_commit", names |-> {"execute_commit"} ],
       [ module |-> "solr_default_vectorizer",
         names |-> {"get_default_text_vectorizer"} ],
       [ module |-> "solr_delete_documents", names |-> {"execute_delete_documents"} ],
       [ module |-> "solr_list_collections", names |-> {"execute_list_collections"} ],
       [ module |-> "solr_list_fields", names |-> {"execute_list_fields"} ],
       [ module |-> "solr_query", names |-> {"execute_query"} ],
       [ module |-> "solr_realtime_get", names |-> {"execute_realtime_get"} ],
       [ module |-> "solr_schema_add_field", names |-> {"execute_schema_add_field"} ],
       [ module |-> "solr_schema_delete_field",
         names |-> {"execute_schema_delete_field"} ],
       [ module |-> "solr_schema_get_field", names |-> {"execute_schema_get_field"} ],
       [ module |-> "solr_schema_list_fields",
         names |-> {"execute_schema_list_fields"} ],
       [ module |-> "solr_select", names |-> {"execute_select_query"} ],
       [ module |-> "solr_semantic_select",
         names |-> {"execute_semantic_select_query"} ],
       [ module |-> "solr_terms", names |-> {"execute_terms"} ],
       [ module |-> "solr_vector_select", names |-> {"execute_vector_select_query"} ],
       [ module |-> "tool_decorator", names |-> {"get_schema", "tool"} ] >>

\* the names listed in __all__
AllNames ==
    { "execute_list_collections", "execute_list_fields", "execute_select_query",
      "execute_vector_select_query", "execute_semantic_select_query",
      "execute_query", "execute_terms", "execute_atomic_update",
      "execute_realtime_get", "execute_schema_add_field",
      "execute_schema_list_fields", "execute_schema_get_field",
      "execute_schema_delete_field", "get_default_text_vectorizer",
      "execute_add_documents", "execute_delete_documents", "execute_commit" }

\* the functions that the modules of the package under src/ define with @tool()
DecoratedInSource ==
    { "execute_add_documents", "execute_atomic_update", "execute_commit",
      "execute_delete_documents", "execute_list_collections", "execute_query",
      "execute_realtime_get", "execute_schema_add_field",
      "execute_schema_delete_field", "execute_schema_get_field",
      "execute_schema_list_fields", "execute_terms",
      "execute_fast_codebase_search", "execute_fast_file_find",
      "execute_codebase_statistics", "execute_codebase_analytics" }

\* the functions of the modules that are not under src/: each may or may not
\* be defined with @tool()
FunctionsElsewhere ==
    { "get_default_text_vectorizer", "execute_list_fields", "execute_select_query",
      "execute_semantic_select_query", "execute_vector_select_query",
      "get_schema", "tool" }

\* the import starts; the modules that are not under src/ decorate `decorated`
StartImport ==
    /\ imports = NoImport
    /\ \E decorated \in SUBSET FunctionsElsewhere :
           imports' = [ NoImport EXCEPT !.pc = 1,
                                        !.decorated = DecoratedInSource \cup decorated ]
    /\ UNCHANGED <<call, sent, inner, outcome, server, schema_cache, just_added,
                   ncalls, last_response, watcher, solr_client, client_calls>>
    /\ UNCHANGED queryVars

\* one `from .module import names` statement: the names are bound in the
\* namespace of the package
ImportFrom ==
    /\ imports.pc \in DOMAIN ImportStatements
    /\ imports' = [ imports EXCEPT
                      !.pc = @ + 1,
                      !.members = @ \cup ImportStatements[imports.pc].names ]
    /\ UNCHANGED <<call, sent, inner, outcome, server, schema_cache, just_added,
                   ncalls, last_response, watcher, solr_client, client_calls>>
    /\ UNCHANGED queryVars

\* __all__ = [...]
DefineAll ==
    /\ imports.pc = Len(ImportStatements) + 1
    /\ imports' = [ imports EXCEPT !.pc = @ + 1, !.all = AllNames ]
    /\ UNCHANGED <<call, sent, inner, outcome, server, schema_cache, just_added,
                   ncalls, last_response, watcher, solr_client, client_calls>>
    /\ UNCHANGED queryVars

\* TOOLS_DEFINITION: the members of the package that are functions marked
\* _is_tool
DefineTools ==
    /\ imports.pc = Len(ImportStatements) + 2
    /\ imports' = [ imports EXCEPT
                      !.pc = @ + 1,
                      !.tools = { name \in imports.members :
                                      name \in imports.decorated } ]
    /\ UNCHANGED <<call, sent, inner, outcome, server, schema_cache, just_added,
                   ncalls, last_response, watcher, solr_client, client_calls>>
    /\ UNCHANGED queryVars

ImportNext ==
    \/ StartImport
    \/ ImportFrom
    \/ DefineAll
    \/ DefineTools

ImportSpec == Init /\ [][ImportNext]_vars

\* the package is imported
Imported == imports.pc = Len(ImportStatements) + 3

\* C22: every tool function of the tools package, execute_fast_codebase_search,
\* execute_fast_file_find, execute_codebase_statistics and
\* execute_codebase_analytics included, is a member of TOOLS_DEFINITION and is
\* named in __all__, and TOOLS_DEFINITION has no other entries
C22_EveryToolRegistered ==
    Imported =>
        /\ \A f \in imports.decorated : f \in imports.tools /\ f \in imports.all
        /\ imports.tools \subseteq imports.decorated

(* ---------------------- the tools that call the client ----------------- *)
\* the client method that each tool entry point calls
ToolMethod ==
    [ execute_list_collections |-> "list_collections",
      execute_add_documents |-> "add_documents",
      execute_delete_documents |-> "delete_documents",
      execute_commit |-> "commit",
      execute_atomic_update |-> "atomic_update",
      execute_realtime_get |-> "realtime_get",
      execute_query |-> "execute_query",
      execute_terms |-> "get_terms",
      execute_schema_add_field |-> "add_schema_field",
      execute_schema_list_fields |-> "get_schema_fields",
      execute_schema_get_field |-> "get_schema_field",
      execute_schema_delete_field |-> "delete_schema_field" ]

ClientTools == DOMAIN ToolMethod

\* the keyword arguments that the tool passes in its call of the method
KeywordsOf(tool) ==
    CASE tool = "execute_list_collections" -> {}
      [] tool = "execute_add_documents" ->
            {"collection", "documents", "commit", "commit_within", "overwrite"}
      [] tool = "execute_delete_documents" -> {"collection", "ids", "query", "commit"}
      [] tool = "execute_commit" ->
            {"collection", "soft", "wait_searcher", "expunge_deletes"}
      [] tool = "execute_atomic_update" ->
            {"collection", "doc_id", "updates", "version", "commit", "commitWithin"}
      [] tool = "execute_realtime_get" -> {"collection", "doc_ids", "fl"}
      [] tool = "execute_query" ->
            {"collection", "q", "fq", "fl", "rows", "start", "sort",
             "highlight_fields", "highlight_snippets", "highlight_fragsize",
             "highlight_method", "stats_fields"}
      [] tool = "execute_terms" ->
            {"collection", "field", "prefix", "regex", "limit", "min_count",
             "max_count"}
      [] tool = "execute_schema_add_field" ->
            {"collection", "field_name", "field_type", "stored", "indexed",
             "required", "multiValued", "docValues"}
      [] tool = "execute_schema_list_fields" -> {"collection"}
      [] tool = "execute_schema_get_field" -> {"collection", "field_name"}
      [] tool = "execute_schema_delete_field" -> {"collection", "field_name"}

\* the arguments with which the tool can be called: its parameters after mcp
ArgumentsOf(tool) ==
    CASE tool = "execute_list_collections" -> { <<>> }
      [] tool = "execute_add_documents" ->
            [ collection : Collections, documents : Batches, commit : BOOLEAN,
              commit_within : {<<>>, <<5>>}, overwrite : BOOLEAN ]
      [] tool = "execute_delete_documents" ->
            [ collection : Collections, ids : IdLists, query : DeleteQueries,
              commit : BOOLEAN ]
      [] tool = "execute_commit" ->
            [ collection : Collections, soft : BOOLEAN, wait_searcher : BOOLEAN,
              expunge_deletes : BOOLEAN ]
      [] tool = "execute_atomic_update" ->
            [ collection : ServerCollections, doc_id : DocIds, updates : UpdateMaps,
              version : VersionArgs, commit : BOOLEAN, commitWithin : {<<>>, <<5>>} ]
      [] tool = "execute_realtime_get" ->
            [ collection : Collections, doc_ids : DocIdLists, fl : {<<>>, colId} ]
      [] tool = "execute_query" ->
            [ collection : {tblDocs}, q : {qAll}, fq : {<<>>}, fl : {<<>>, colId},
              rows : {1, 10}, start : {0}, sort : {<<>>}, highlight_fields : {<<>>},
              highlight_snippets : {3}, highlight_fragsize : {100},
              highlight_method : {"unified"}, stats_fields : {<<>>} ]
      [] tool = "execute_terms" ->
            [ collection : {tblDocs}, field : {colId}, prefix : {<<>>, <<"a">>},
              regex : {<<>>}, limit : {10}, min_count : {1}, max_count : {<<>>} ]
      [] tool = "execute_schema_add_field" ->
            [ collection : ServerCollections, field_name : FieldNames,
              field_type : {"string"}, stored : BOOLEAN, indexed : {TRUE},
              required : {FALSE}, multiValued : {FALSE}, docValues : {<<>>, <<TRUE>>} ]
      [] tool = "execute_schema_list_fields" -> [ collection : ServerCollections ]
      [] tool = "execute_schema_get_field" ->
            [ collection : {tblDocs}, field_name : FieldNames ]
      [] tool = "execute_schema_delete_field" ->
            [ collection : ServerCollections, field_name : FieldNames ]

\* faulty variant: commit is not passed on, the method's default applies
forwarded_without_commit(tool, arguments) ==
    [ k \in KeywordsOf(tool) |-> IF k = "commit" THEN TRUE ELSE arguments[k] ]

\* the keyword arguments of the call: name=name for every keyword
forwarded(tool, arguments) == [ k \in KeywordsOf(tool) |-> arguments[k] ]

\* the method of the client is called with the keyword arguments kw; the
\* provider and the server answer as `a` and `shape` say
client_method(cli, srv, method, kw, a, shape) ==
    CASE method = "list_collections" ->
            Res(<<ListRequest>>, a.listing, list_collections(a.listing), srv, cli)
      [] method = "add_documents" ->
            add_documents(cli, srv, kw.collection, kw.documents, kw.commit,
                          a.listing, a.fault)
      [] method = "delete_documents" ->
            delete_documents(cli, srv, kw.collection, kw.ids, kw.query, kw.commit,
                             a.listing, a.fault)
      [] method = "commit" ->
            commit(cli, srv, kw.collection, kw.soft, kw.wait_searcher,
                   kw.expunge_deletes, a.listing, a.fault)
      [] method = "atomic_update" ->
            atomic_update(cli, srv, kw.collection, kw.doc_id, kw.updates,
                          kw.version, kw.commit, kw.commitWithin, a.listing,
                          a.fault, shape)
      [] method = "realtime_get" ->
            realtime_get(cli, srv, kw.collection, kw.doc_ids, kw.fl, a.listing,
                         a.fault)
      [] method = "add_schema_field" ->
            Res(<<Req("schema", kw.collection, <<>>, [ name |-> kw.field_name ])>>,
                NoExc, add_schema_field(srv, kw.collection, kw.field_name),
                server_schema(srv, kw.collection, "add-field", kw.field_name), cli)
      [] method = "delete_schema_field" ->
            Res(<<Req("schema", kw.collection, <<>>, [ name |-> kw.field_name ])>>,
                NoExc, delete_schema_field(srv, kw.collection, kw.field_name),
                server_schema(srv, kw.collection, "delete-field", kw.field_name),
                cli)
      [] method = "get_schema_fields" ->
            Res(<<Req("schema", kw.collection, <<>>, <<>>)>>, NoExc,
                get_schema_fields(srv, kw.collection), srv, cli)
      [] OTHER ->
            operation_fails(cli, srv, method, kw.collection, TransportError("transport"))

\* a call that the client received, and what the method returned or raised
Received(method, kw, out) == [ op |-> method, args |-> kw, returned |-> out ]

\* a tool entry point is called: `return await mcp.solr_client.method(...)`
ExecuteTool ==
    \E tool \in ClientTools, a \in Answers, shape \in AnswerShapes :
        \E arguments \in ArgumentsOf(tool) :
            LET kw == forwarded(tool, arguments)
                r == client_method(solr_client, server, ToolMethod[tool], kw, a, shape)
            IN  /\ call = NoCall
                /\ ncalls < MaxCalls
                /\ ncalls' = ncalls + 1
                /\ call' = Call(tool, <<>>, arguments)
                /\ client_calls' = <<Received(ToolMethod[tool], kw, r.outcome)>>
                /\ sent' = r.sent
                /\ inner' = r.inner
                /\ outcome' = r.outcome
                /\ server' = r.server
                /\ solr_client' = r.solr_client
                /\ last_response' = NoResponse
                /\ UNCHANGED <<schema_cache, just_added, imports, watcher>>
                /\ UNCHANGED queryVars

\* the caller takes what the tool returned or raised
ToolReturned ==
    /\ call # NoCall
    /\ call' = NoCall
    /\ client_calls' = <<>>
    /\ sent' = <<>>
    /\ inner' = NoExc
    /\ outcome' = NoOutcome
    /\ UNCHANGED <<server, solr_client, schema_cache, just_added, ncalls,
                   last_response, imports, watcher>>
    /\ UNCHANGED queryVars

CallNext ==
    \/ ExecuteTool
    \/ ToolReturned

CallSpec == Init /\ [][CallNext]_vars

FallbackReturned ==
    /\ call.op \in SearchTools
    /\ FallbackRan
    /\ outcome.status = "success"
    /\ outcome.value["success"]

\* C24: in the grep and find fallbacks, returned_results is the number of
\* entries returned and exceeds neither max_results (no entry is returned
\* when max_results is not positive) nor the reported total
C24_ReturnedResultsBounded ==
    FallbackReturned =>
        /\ outcome.value["returned_results"] = Len(outcome.value["matches"])
        /\ outcome.value["returned_results"]
             <= (IF call.args.max_results > 0 THEN call.args.max_results ELSE 0)
        /\ outcome.value["returned_results"] <= outcome.value["total"]

\* C25: whatever calls were made before on the client, the client that
\* _get_or_create_client returns addresses the collection named in the
\* current call: every add and delete request of add_documents and
\* delete_documents goes to that collection
C25_ClientAddressesCollection ==
    \A i \in DOMAIN sent :
        (call.op \in {"add_documents", "delete_documents"}
            /\ sent[i].kind \in {"add", "delete"})
          => sent[i].core = call.collection

(* ------------------- C26: only returned IDs in the filter -------------- *)
\* the document IDs that the similarity search's response reports, under
\* whichever key the server used
ReturnedIds ==
    UNION { { docs[j][k] : k \in DOMAIN docs[j] } : j \in 1..Len(docs) }

\* C26: every ID of the `id IN (...)` list of the rewritten statement is the
\* ID of a document that the similarity search returned.
C26_OnlyReturnedIds ==
    (Rewritten /\ doc_ids # <<>>) =>
        \A i \in 1..Len(IdsInStmt(stmt)) : IdsInStmt(stmt)[i] \in ReturnedIds

(* ------------------- C27: the document of an atomic update ------------- *)
\* C27: the document that atomic_update sends has `id` equal to the doc_id
\* argument and, when a version is given, `_version_` equal to the version
\* argument, whatever the keys of the updates map are.
C27_UpdateDocKeepsIdAndVersion ==
    \A i \in DOMAIN sent :
        (call.op = "atomic_update" /\ sent[i].kind = "update") =>
            /\ sent[i].body["id"] = call.args.doc_id
            /\ call.args.version # <<>> =>
                    sent[i].body["_version_"] = call.args.version[1]

(* --------------------------- the file watcher -------------------------- *)
\* scripts/watch_and_index.py, for one path that _should_index accepts.  The
\* handlers and the tasks run on one event loop: a step of a task, from one
\* await to the next, is one action.  Time is counted in ticks of half a
\* second, and a sleeping task wakes no earlier than its delay.
MaxTime == 6        \* the clock stops here
MaxEvents == 3      \* file system events in a behaviour

\* self.update_delay = 1.0 second, in ticks
UpdateDelay == 2

\* faulty variant: the time since the last event is not looked at
debounce_elapsed_unchecked(now, scheduled_time) == TRUE

\* `loop.time() - scheduled_time >= self.update_delay`
debounce_elapsed(now, scheduled_time) == now - scheduled_time >= UpdateDelay

Event(kind, at) == [ kind |-> kind, at |-> at ]
Task(kind, task_pc, since) == [ kind |-> kind, pc |-> task_pc, since |-> since ]

\* the other variables stay as they are
WatcherOnly ==
    /\ UNCHANGED <<call, sent, inner, outcome, server, schema_cache, just_added,
                   ncalls, last_response, imports, solr_client, client_calls>>
    /\ UNCHANGED queryVars

\* _schedule_reindex: the time of the event is noted for the path and a
\* debounce task is created
schedule_reindex(w, kind) ==
    [ w EXCEPT !.exists = TRUE,
               !.pending_updates = <<w.now>>,
               !.tasks = Append(w.tasks, Task("reindex", "sleeping", w.now)),
               !.events = Append(w.events, Event(kind, w.now)) ]

\* the file is created
on_created ==
    /\ Len(watcher.events) < MaxEvents
    /\ ~watcher.exists
    /\ watcher' = schedule_reindex(watcher, "created")
    /\ WatcherOnly

\* the file is written
on_modified ==
    /\ Len(watcher.events) < MaxEvents
    /\ watcher.exists
    /\ watcher' = schedule_reindex(watcher, "modified")
    /\ WatcherOnly

\* the file is removed: a delete task is created, pending_updates is left
\* alone
on_deleted ==
    /\ Len(watcher.events) < MaxEvents
    /\ watcher.exists
    /\ watcher' = [ watcher EXCEPT
                      !.exists = FALSE,
                      !.tasks = Append(watcher.tasks,
                                       Task("delete", "created", watcher.now)),
                      !.events = Append(watcher.events,
                                        Event("deleted", watcher.now)) ]
    /\ WatcherOnly

\* time passes
Tick ==
    /\ watcher.now < MaxTime
    /\ watcher' = [ watcher EXCEPT !.now = watcher.now + 1 ]
    /\ WatcherOnly

\* _debounced_reindex after its sleep: when the path is pending and its last
\* event is old enough, the entry is removed and _reindex_file is entered,
\* which returns at once when the file is gone and otherwise reads it and
\* asks for the embedding
debounced_reindex ==
    \E i \in DOMAIN watcher.tasks :
        /\ watcher.tasks[i].kind = "reindex"
        /\ watcher.tasks[i].pc = "sleeping"
        /\ watcher.now >= watcher.tasks[i].since + UpdateDelay
        /\ IF /\ watcher.pending_updates # <<>>
              /\ debounce_elapsed(watcher.now, watcher.pending_updates[1])
           THEN watcher' =
                  [ watcher EXCEPT
                      !.pending_updates = <<>>,
                      !.reindexed = Append(watcher.reindexed, watcher.now),
                      !.tasks[i].pc = IF watcher.exists THEN "embedding"
                                      ELSE "done" ]
           ELSE watcher' = [ watcher EXCEPT !.tasks[i].pc = "done" ]
        /\ WatcherOnly

\* the embedding service has answered, or failed: the document is posted to
\* the index either way
EmbeddingAnswered ==
    \E i \in DOMAIN watcher.tasks :
        /\ watcher.tasks[i].pc = "embedding"
        /\ watcher' = [ watcher EXCEPT !.tasks[i].pc = "posting" ]
        /\ WatcherOnly

\* the index has taken the document and committed
IndexAnswered ==
    \E i \in DOMAIN watcher.tasks :
        /\ watcher.tasks[i].pc = "posting"
        /\ watcher' = [ watcher EXCEPT !.tasks[i].pc = "done",
                                       !.indexed = TRUE ]
        /\ WatcherOnly

\* _delete_from_index up to its await: the delete by id is posted
delete_from_index ==
    \E i \in DOMAIN watcher.tasks :
        /\ watcher.tasks[i].kind = "delete"
        /\ watcher.tasks[i].pc = "created"
        /\ watcher' = [ watcher EXCEPT !.tasks[i].pc = "deleting" ]
        /\ WatcherOnly

\* the index has deleted the document and committed
DeleteAnswered ==
    \E i \in DOMAIN watcher.tasks :
        /\ watcher.tasks[i].pc = "deleting"
        /\ watcher' = [ watcher EXCEPT !.tasks[i].pc = "done",
                                       !.indexed = FALSE ]
        /\ WatcherOnly

WatcherNext ==
    \/ on_created
    \/ on_modified
    \/ on_deleted
    \/ Tick
    \/ debounced_reindex
    \/ EmbeddingAnswered
    \/ IndexAnswered
    \/ delete_from_index
    \/ DeleteAnswered

WatcherSpec == Init /\ [][WatcherNext]_vars

\* every task of the watcher has run to its end
AllTasksFinished ==
    \A i \in DOMAIN watcher.tasks : watcher.tasks[i].pc = "done"

\* the events so far are one burst of create and modify events, each less
\* than update_delay after the one before
IsBurst ==
    /\ watcher.events # <<>>
    /\ \A i \in DOMAIN watcher.events :
          watcher.events[i].kind \in {"created", "modified"}
    /\ \A i \in 2..Len(watcher.events) :
          watcher.events[i].at - watcher.events[i - 1].at < UpdateDelay

C29_DeletedFileNotIndexed ==
    (/\ watcher.events # <<>>
     /\ watcher.events[Len(watcher.events)].kind = "deleted"
     /\ AllTasksFinished)
        => ~watcher.indexed

====
